---- MODULE Spec2Model ----
(***************************************************************************)
(* Model of the Uniswap pair snapshot service: the Mongo-backed snapshot   *)
(* repository, the data collection service that fills it from the subgraph *)
(* (or from mock fixtures), and the cron scheduler that drives collection. *)
(*                                                                         *)
(* Time is counted in whole hours (the backfill and the APR windows are    *)
(* hourly).  Amounts are held in thousands of USD, rounded down: for the   *)
(* amounts of the model x - i*50000 >= 0 exactly when                      *)
(* floor(x/1000) - i*50 >= 0, so every sign judgement is exact.            *)
(***************************************************************************)
EXTENDS Integers, Sequences, FiniteSets, Bags, TLC

(***************************************************************************)
(* Bounds of the model.                                                    *)
(***************************************************************************)
MaxNow == 1
MaxBatch == 2
MaxCycles == 2
MaxStarts == 2

(***************************************************************************)
(* Pair addresses, shortened.  "0xBC9D" and "0xbc9d" differ only in case.  *)
(***************************************************************************)
pairAddress1 == "0xbc9d"
pairAddress2 == "0xb4e1"
PAIR_ADDRESSES == <<pairAddress1, pairAddress2>>
AddressInputs == {"0xbc9d", "0xBC9D", "0xb4e1"}

toLowerCaseKeep(a) == a

toLowerCase(a) == IF a = "0xBC9D" THEN "0xbc9d" ELSE a

(***************************************************************************)
(* Candidate snapshots handed to the repository by a direct caller.        *)
(***************************************************************************)
Stamps == {0, 1}
AmountPairs == { <<5, 5>>, <<6, 7>>, <<-1, 5>>, <<5, -1>> }

MakeSnapshot(ts, addr, reserve, volume) ==
    [timestamp |-> ts, pairAddress |-> addr, reserveUSD |-> reserve, volumeUSD |-> volume]

Candidates ==
    { MakeSnapshot(ts, a, rv[1], rv[2]) : ts \in Stamps, a \in AddressInputs, rv \in AmountPairs }

\* The candidates a direct caller puts in a batch: two that meet at one key under
\* different letter case, one of the other pair, one with a negative volume.
BatchCandidates ==
    { MakeSnapshot(0, "0xBC9D", 5, 5), MakeSnapshot(0, "0xbc9d", 6, 7),
      MakeSnapshot(1, "0xb4e1", 5, 5), MakeSnapshot(0, "0xb4e1", 5, -1) }

Batches == UNION { [1..n -> BatchCandidates] : n \in 0..MaxBatch }

VARIABLES
    store,               \* the snapshots collection
    now,                 \* the wall clock, in hours
    event,               \* the operation that has just returned, and its outcome
    isServiceAvailable,  \* UniswapService: whether GRAPH_API_KEY is configured
    cycles,              \* the invocations of takeCurrentSnapshot in flight
    hist,                \* per scheduler, its invocation of initializeHistoricalData
    initPc,              \* per scheduler, where its initialize() stands
    isRunning,           \* per scheduler, Scheduler.isRunning
    tasks,               \* node-cron's process-wide task registry
    stopped              \* per scheduler, whether stop() was called since the last start()

collectVars == <<isServiceAvailable, cycles, hist>>
schedVars == <<initPc, isRunning, tasks, stopped>>
vars == <<store, now, event, isServiceAvailable, cycles, hist, initPc, isRunning, tasks, stopped>>

(***************************************************************************)
(* The snapshots collection: a multiset of documents.  The unique index on *)
(* (timestamp, pairAddress) is what the upsert filter relies on.           *)
(***************************************************************************)
Docs == BagToSet(store)

Matching(st, ts, addr) ==
    { d \in BagToSet(st) : d.timestamp = ts /\ d.pairAddress = addr }

SameKey(a, b) ==
    a.timestamp = b.timestamp /\ toLowerCase(a.pairAddress) = toLowerCase(b.pairAddress)

\* insertOne: one more copy of the document in the collection.
InsertOne(st, doc) ==
    [d \in DOMAIN st \cup {doc} |->
        IF d = doc THEN (IF doc \in DOMAIN st THEN st[doc] + 1 ELSE 1) ELSE st[d]]

\* The collection without one copy of a document it holds.
RemoveOne(st, doc) ==
    IF st[doc] = 1
    THEN [d \in DOMAIN st \ {doc} |-> st[d]]
    ELSE [st EXCEPT ![doc] = @ - 1]

\* An insert that never looks for the document already at the key.
InsertAlways(st, s) ==
    InsertOne(st, MakeSnapshot(s.timestamp, toLowerCase(s.pairAddress),
                               s.reserveUSD, s.volumeUSD))

\* updateOne / findOneAndUpdate with upsert: true, filter {timestamp, pairAddress}
\* and $set {reserveUSD, volumeUSD}.
UpdateOneUpsert(st, s) ==
    LET addr == toLowerCase(s.pairAddress)
        m    == Matching(st, s.timestamp, addr)
        doc  == MakeSnapshot(s.timestamp, addr, s.reserveUSD, s.volumeUSD)
    IN  IF m = {}
        THEN InsertOne(st, doc)
        ELSE LET old == CHOOSE d \in m : TRUE
             IN  InsertOne(RemoveOne(st, old), doc)

\* bulkWrite applies its operations in order: the collection after ops[lo..hi] have
\* been applied to st.  (The test of next makes TLC compute each collection before
\* it goes on to the next operation.)
RECURSIVE BulkRange(_, _, _, _)
BulkRange(st, ops, lo, hi) ==
    IF lo > hi THEN st
    ELSE LET next == UpdateOneUpsert(st, ops[lo])
         IN  IF DOMAIN next = {} THEN st ELSE BulkRange(next, ops, lo + 1, hi)

BulkWriteReversed(st, ops) ==
    BulkRange(st, [i \in 1..Len(ops) |-> ops[Len(ops) + 1 - i]], 1, Len(ops))

BulkWrite(st, ops) == BulkRange(st, ops, 1, Len(ops))

\* How many operations of a bulkWrite found a document at their key.
RECURSIVE MatchedRange(_, _, _, _)
MatchedRange(st, ops, lo, hi) ==
    IF lo > hi THEN 0
    ELSE LET next == UpdateOneUpsert(st, ops[lo])
             hit  == IF Matching(st, ops[lo].timestamp, toLowerCase(ops[lo].pairAddress)) = {}
                     THEN 0 ELSE 1
         IN  IF DOMAIN next = {} THEN 0 ELSE hit + MatchedRange(next, ops, lo + 1, hi)

MatchedCount(st, ops) == MatchedRange(st, ops, 1, Len(ops))

\* A schema without the min: 0 validators.
RunValidatorsNone(s) == TRUE

\* The update validators of the schema: reserveUSD and volumeUSD have min: 0.
RunValidators(s) == s.reserveUSD >= 0 /\ s.volumeUSD >= 0

\* op: the operation; who: the scheduler it belongs to (0: none); result: what the
\* caller sees; arg: the snapshots handed to the store; matched: for a direct call
\* of the repository, how many of them found a document at their key; wrote: whether the store write ran ("none": no
\* write was issued); answers: what the subgraph had for each pair, in order;
\* timestamp: the timestamp a takeCurrentSnapshot invocation took; query: the
\* arguments of a read or of a purge; rows: what a read returned.
Event(op, who, result, arg, matched) ==
    [op |-> op, who |-> who, result |-> result, arg |-> arg, matched |-> matched,
     wrote |-> "none", answers |-> <<>>, timestamp |-> 0,
     query |-> <<>>, rows |-> <<>>]

NoEvent == Event("none", 0, "none", <<>>, 0)

(***************************************************************************)
(* SnapshotRepository.saveSnapshot: findOneAndUpdate with upsert and       *)
(* runValidators.  dbUp is whether the database answers.                   *)
(***************************************************************************)
saveSnapshot(snapshot, dbUp) ==
    /\ IF ~RunValidators(snapshot)
       THEN /\ event' = Event("saveSnapshot", 0, "ValidationError", <<snapshot>>, 0)
            /\ store' = store
       ELSE IF ~dbUp
       THEN /\ event' = Event("saveSnapshot", 0, "StoreError", <<>>, 0)
            /\ store' = store
       ELSE /\ event' = Event("saveSnapshot", 0, "ok", <<snapshot>>,
                              MatchedCount(store, <<snapshot>>))
            /\ store' = UpdateOneUpsert(store, snapshot)
    /\ UNCHANGED <<now, collectVars, schedVars>>

(***************************************************************************)
(* SnapshotRepository.saveBatchSnapshots: one bulkWrite of updateOne       *)
(* upserts.  bulkWrite casts its operations and runs no update validators. *)
(* An empty batch returns before any database call.                        *)
(***************************************************************************)
saveBatchThrows(snapshots, dbUp) == snapshots # <<>> /\ ~dbUp

saveBatchStore(st, snapshots, dbUp) ==
    IF snapshots = <<>> \/ ~dbUp THEN st ELSE BulkWrite(st, snapshots)

saveBatchWrote(snapshots, dbUp) ==
    IF snapshots = <<>> THEN "none" ELSE IF dbUp THEN "ok" ELSE "failed"

saveBatchSnapshots(snapshots, dbUp) ==
    /\ store' = saveBatchStore(store, snapshots, dbUp)
    /\ event' = IF saveBatchThrows(snapshots, dbUp)
                THEN Event("saveBatchSnapshots", 0, "StoreError", <<>>, 0)
                ELSE Event("saveBatchSnapshots", 0, "ok", snapshots,
                           MatchedCount(store, snapshots))
    /\ UNCHANGED <<now, collectVars, schedVars>>

(***************************************************************************)
(* SnapshotRepository.deleteOldSnapshots: deleteMany of the documents      *)
(* older than the cutoff.                                                  *)
(***************************************************************************)
deleteOldSnapshotsUnfiltered(st, olderThanDays, at) == EmptyBag

deleteOldSnapshotsInclusive(st, olderThanDays, at) ==
    LET cutoffDate == at - olderThanDays * 24
    IN  [d \in { x \in DOMAIN st : ~(x.timestamp <= cutoffDate) } |-> st[d]]

deleteOldSnapshots(st, olderThanDays, at) ==
    LET cutoffDate == at - olderThanDays * 24
    IN  [d \in { x \in DOMAIN st : ~(x.timestamp < cutoffDate) } |-> st[d]]

(***************************************************************************)
(* The reads of SnapshotRepository.  A find() answers with the matching    *)
(* documents in the order of its sort; a date parameter is an ISO string,  *)
(* a limit and an offset are numbers, and each may be left out (<<>>).     *)
(***************************************************************************)
StartDates == {"", "1970-01-01T01:00Z"}
EndDates == {"", "1970-01-01T00:00Z"}

\* new Date(string), in hours since the epoch, on the strings the model meets.
newDate(str) ==
    CASE str = "1970-01-01T01:00Z" -> 1
      [] str = "1970-01-01T02:00Z" -> 2
      [] str = "1969-12-25T00:00Z" -> -168
      [] str = "1969-12-25T01:00Z" -> -167
      [] str = "1969-12-25T02:00Z" -> -166
      [] OTHER                     -> 0

\* Date.prototype.toISOString on the same hours.
toISOString(t) ==
    CASE t = 1    -> "1970-01-01T01:00Z"
      [] t = 2    -> "1970-01-01T02:00Z"
      [] t = -168 -> "1969-12-25T00:00Z"
      [] t = -167 -> "1969-12-25T01:00Z"
      [] t = -166 -> "1969-12-25T02:00Z"
      [] OTHER    -> "1970-01-01T00:00Z"

Limits == { <<>>, <<0>>, <<1>> }
Offsets == { <<>>, <<1>> }

SnapshotQueryParams ==
    [startDate : StartDates, endDate : EndDates, limit : Limits, offset : Offsets]

NoParams == [startDate |-> "", endDate |-> "", limit |-> <<>>, offset |-> <<>>]

\* if (params.limit), if (params.offset): undefined and 0 are both falsy.
Truthy(n) == n # <<>> /\ n[1] # 0

\* find(query): the documents of the collection that match.
Find(st, matching) == [d \in matching |-> st[d]]

\* sort({ timestamp: dir }), dir = 1 ascending, dir = -1 descending.
RECURSIVE Sort(_, _)
Sort(found, dir) ==
    IF DOMAIN found = {} THEN <<>>
    ELSE LET first == CHOOSE x \in DOMAIN found :
                         \A y \in DOMAIN found : dir * x.timestamp <= dir * y.timestamp
         IN  <<first>> \o Sort(RemoveOne(found, first), dir)

Skip(rows, n) == SubSeq(rows, n + 1, Len(rows))

Limit(rows, n) == SubSeq(rows, 1, IF n < Len(rows) THEN n ELSE Len(rows))

getSnapshots(st, pairAddress, params) ==
    LET filter(d) ==
            /\ d.pairAddress = toLowerCase(pairAddress)
            /\ params.startDate # "" => d.timestamp >= newDate(params.startDate)
            /\ params.endDate # "" => d.timestamp <= newDate(params.endDate)
        sorted == Sort(Find(st, { d \in DOMAIN st : filter(d) }), -1)
        skipped == IF Truthy(params.offset) THEN Skip(sorted, params.offset[1]) ELSE sorted
    IN  IF Truthy(params.limit) THEN Limit(skipped, params.limit[1]) ELSE skipped

\* A findOne without the pairAddress filter.
getLatestSnapshotAnyPair(st, pairAddress) ==
    Limit(Sort(Find(st, DOMAIN st), -1), 1)

\* findOne(...).sort({ timestamp: -1 }): <<>> is null.
getLatestSnapshot(st, pairAddress) ==
    LET filter(d) == d.pairAddress = toLowerCase(pairAddress)
    IN  Limit(Sort(Find(st, { d \in DOMAIN st : filter(d) }), -1), 1)

getSnapshotsForAPROpenStart(st, pairAddress, endTime, windowHours) ==
    LET startTime == endTime - windowHours
        filter(d) ==
            /\ d.pairAddress = toLowerCase(pairAddress)
            /\ d.timestamp > startTime
            /\ d.timestamp <= endTime
    IN  Sort(Find(st, { d \in DOMAIN st : filter(d) }), 1)

getSnapshotsForAPR(st, pairAddress, endTime, windowHours) ==
    LET startTime == endTime - windowHours
        filter(d) ==
            /\ d.pairAddress = toLowerCase(pairAddress)
            /\ d.timestamp >= startTime
            /\ d.timestamp <= endTime
    IN  Sort(Find(st, { d \in DOMAIN st : filter(d) }), 1)

Timestamps(rows) == [i \in DOMAIN rows |-> rows[i].timestamp]

getStats(st) ==
    [totalSnapshots |-> BagCardinality(st),
     uniquePairs |-> Cardinality({ d.pairAddress : d \in DOMAIN st }),
     oldestSnapshot |-> Timestamps(Limit(Sort(st, 1), 1)),
     newestSnapshot |-> Timestamps(Limit(Sort(st, -1), 1))]

(***************************************************************************)
(* UniswapService: the subgraph, and the mock fixtures it falls back to.   *)
(* A PairData carries its amounts as decimal strings.                      *)
(***************************************************************************)
PairData(id, reserveUSD, volumeUSD) ==
    [id |-> id, reserveUSD |-> reserveUSD, volumeUSD |-> volumeUSD]

Null == PairData("null", "0", "0")

mockData ==
    (pairAddress1 :> PairData(pairAddress1, "0.000000008", "176742"))
    @@ (pairAddress2 :> PairData(pairAddress2, "64000000", "50000000000"))

getMockPairData(pairAddress) ==
    IF pairAddress \in DOMAIN mockData THEN mockData[pairAddress] ELSE Null

\* What the subgraph may hold for a pair when it answers.
LiveData(pairAddress) ==
    IF pairAddress = pairAddress1
    THEN { PairData(pairAddress, "1000000", "5000000") }
    ELSE { PairData(pairAddress, "2000000", "100000") }

\* What a request meets: the pair, no such pair, or a request that throws.  Without
\* an API key no request is made.
Answers(pairAddress) ==
    IF isServiceAvailable
    THEN { [kind |-> "data", pair |-> p] : p \in LiveData(pairAddress) }
         \cup { [kind |-> "nopair", pair |-> Null], [kind |-> "error", pair |-> Null] }
    ELSE { [kind |-> "norequest", pair |-> Null] }

\* A data source that yields nothing when the request throws.
getPairDataNoFallback(pairAddress, answer) ==
    IF ~isServiceAvailable THEN getMockPairData(pairAddress)
    ELSE IF answer.kind = "error" THEN Null
    ELSE answer.pair

getPairData(pairAddress, answer) ==
    IF ~isServiceAvailable THEN getMockPairData(pairAddress)
    ELSE IF answer.kind = "error" THEN getMockPairData(pairAddress)
    ELSE answer.pair

\* parseFloat of the decimal strings of the model, in thousands of USD, rounded down.
parseFloat(str) ==
    CASE str = "0.000000008" -> 0
      [] str = "176742"      -> 176
      [] str = "64000000"    -> 64000
      [] str = "50000000000" -> 50000000
      [] str = "1000000"     -> 1000
      [] str = "5000000"     -> 5000
      [] str = "2000000"     -> 2000
      [] str = "100000"      -> 100
      [] OTHER               -> 0

(***************************************************************************)
(* DataCollectionService.createInitialSnapshots: the synthesized backfill. *)
(***************************************************************************)
HoursBack == 48
VolumeStep == 50

\* Math.random() is drawn per sample; seed picks one of two runs of draws.
\* 0.95 + random * 0.1 lies in [0.95, 1.05): held in percent.
Seeds == {0, 1}
VariancePct(seed, i) ==
    CASE (seed + i) % 3 = 0 -> 95
      [] (seed + i) % 3 = 1 -> 100
      [] OTHER              -> 104

InitialSnapshot(pairAddress, currentPairData, at, seed, i) ==
    MakeSnapshot(at - i, pairAddress,
                 (parseFloat(currentPairData.reserveUSD) * VariancePct(seed, i)) \div 100,
                 parseFloat(currentPairData.volumeUSD) - (i * VolumeStep))

\* The samples in the order the loop pushes them, newest first.
InitialSnapshotsAsPushed(pairAddress, currentPairData, at, seed) ==
    [k \in 1..HoursBack |-> InitialSnapshot(pairAddress, currentPairData, at, seed, k - 1)]

\* The loop pushes i = 0 .. 47, newest first; the sort by timestamp reverses that.
InitialSnapshots(pairAddress, currentPairData, at, seed) ==
    [k \in 1..HoursBack |->
        InitialSnapshot(pairAddress, currentPairData, at, seed, HoursBack - k)]

\* A check that finds no pool populated.
HasSnapshotNever(st, pairAddress) == FALSE

\* getLatestSnapshot: the pair's document with the greatest timestamp, if any.
HasSnapshot(st, pairAddress) ==
    \E d \in BagToSet(st) : d.pairAddress = toLowerCase(pairAddress)

(***************************************************************************)
(* Scheduler: the isRunning flag and the node-cron tasks.                  *)
(***************************************************************************)
Schedulers == {1, 2}
ServerScheduler == 1

\* tasks holds one record per task of the registry: the scheduler whose start()
\* scheduled it, which callback it runs, and whether it is still scheduled.
Task(owner, kind) == [owner |-> owner, kind |-> kind, running |-> TRUE]

\* task.stop() on every task of the registry.
StopAll(ts) ==
    LET Count(t) == IF t \in DOMAIN ts THEN ts[t] ELSE 0
    IN  [t \in { [x EXCEPT !.running = FALSE] : x \in DOMAIN ts } |->
            Count(t) + Count([t EXCEPT !.running = TRUE])]

\* A start() that schedules without looking at isRunning.
startBodyUnguarded(s) ==
    /\ tasks' = tasks (+) SetToBag({ Task(s, "snapshot"), Task(s, "cleanup") })
    /\ isRunning' = [isRunning EXCEPT ![s] = TRUE]
    /\ stopped' = [stopped EXCEPT ![s] = FALSE]

\* Scheduler.start: what it does to the flag and the registry.
startBody(s) ==
    /\ IF isRunning[s]
       THEN UNCHANGED <<tasks, isRunning>>
       ELSE /\ tasks' = tasks (+) SetToBag({ Task(s, "snapshot"), Task(s, "cleanup") })
            /\ isRunning' = [isRunning EXCEPT ![s] = TRUE]
    /\ stopped' = [stopped EXCEPT ![s] = FALSE]

start(s) ==
    /\ startBody(s)
    /\ event' = Event("start", s, IF isRunning[s] THEN "already running" ELSE "started",
                      <<>>, 0)
    /\ UNCHANGED <<store, now, collectVars, initPc>>

\* A stop() that clears its flag and leaves the cron tasks alone.
stopBodyFlagOnly(s) ==
    /\ tasks' = tasks
    /\ isRunning' = [isRunning EXCEPT ![s] = FALSE]
    /\ stopped' = [stopped EXCEPT ![s] = TRUE]

\* Scheduler.stop: cron.getTasks().forEach(task => task.stop()) stops every task of
\* the process-wide registry.
stopBody(s) ==
    /\ IF ~isRunning[s]
       THEN UNCHANGED <<tasks, isRunning>>
       ELSE /\ tasks' = StopAll(tasks)
            /\ isRunning' = [isRunning EXCEPT ![s] = FALSE]
    /\ stopped' = [stopped EXCEPT ![s] = TRUE]

stop(s) ==
    /\ stopBody(s)
    /\ event' = Event("stop", s, IF isRunning[s] THEN "stopped" ELSE "not running",
                      <<>>, 0)
    /\ UNCHANGED <<store, now, collectVars, initPc>>

(***************************************************************************)
(* DataCollectionService.takeCurrentSnapshot.  An invocation takes its     *)
(* timestamp when it is called; it then awaits getPairData for each pair   *)
(* and one saveBatchSnapshots.  The getPairData calls read and write no    *)
(* state of the service, so the loop and the write are one step, taken     *)
(* some time after the call; its caller's continuation runs with it.       *)
(***************************************************************************)
\* cycles holds one record per invocation in flight: who called it and the
\* timestamp it took.
\* hung: one of its requests to the subgraph is awaited and will never settle.
Cycle(origin, who, timestamp) ==
    [origin |-> origin, who |-> who, timestamp |-> timestamp, hung |-> FALSE]

InFlight == BagCardinality(cycles)

BeginCycle(origin, who) ==
    /\ InFlight < MaxCycles
    /\ cycles' = cycles (+) SetToBag({ Cycle(origin, who, now) })

\* A push that stamps each candidate with a time of its own.
StageSnapshotOwnTime(snapshots, timestamp, pairAddress, pairData) ==
    IF pairData # Null
    THEN Append(snapshots, MakeSnapshot(timestamp + Len(snapshots), pairAddress,
                                        parseFloat(pairData.reserveUSD),
                                        parseFloat(pairData.volumeUSD)))
    ELSE snapshots

\* if (pairData) snapshots.push({timestamp, pairAddress, reserveUSD, volumeUSD})
StageSnapshot(snapshots, timestamp, pairAddress, pairData) ==
    IF pairData # Null
    THEN Append(snapshots, MakeSnapshot(timestamp, pairAddress,
                                        parseFloat(pairData.reserveUSD),
                                        parseFloat(pairData.volumeUSD)))
    ELSE snapshots

\* A loop that gives up at the first pair without data.
NextPairAbort(i, pairData) ==
    IF pairData = Null THEN Len(PAIR_ADDRESSES) + 1 ELSE i + 1

\* for (const pairAddress of this.PAIR_ADDRESSES): on to the next pair, with or
\* without data for this one.
NextPair(i, pairData) == i + 1

\* What the subgraph has for each pair of PAIR_ADDRESSES during one invocation.
AnswerSeqs ==
    { a \in [1..Len(PAIR_ADDRESSES) -> UNION { Answers(p) : p \in AddressInputs }] :
        \A i \in 1..Len(PAIR_ADDRESSES) : a[i] \in Answers(PAIR_ADDRESSES[i]) }

\* The snapshots array after the loop has run from pair i on.
RECURSIVE CollectSnapshots(_, _, _, _)
CollectSnapshots(i, snapshots, timestamp, answers) ==
    IF i > Len(PAIR_ADDRESSES) THEN snapshots
    ELSE LET pairAddress == PAIR_ADDRESSES[i]
             pairData    == getPairData(pairAddress, answers[i])
         IN  CollectSnapshots(NextPair(i, pairData),
                              StageSnapshot(snapshots, timestamp, pairAddress, pairData),
                              timestamp, answers)

\* The outer try/catch of takeCurrentSnapshot logs the error of a failed store
\* write and returns normally.
takeCurrentSnapshotThrows(wrote) == FALSE

Outcome(threw) == IF threw THEN "failure" ELSE "success"

\* The caller's continuation.  POST /trigger-snapshot answers success or 500;
\* Scheduler.triggerSnapshot resolves or rethrows; the cron callback logs either
\* way; Scheduler.initialize goes on to this.start(), or rethrows.
Complete(cyc, arg, wrote, answers) ==
    LET threw == takeCurrentSnapshotThrows(wrote)
    IN  /\ cycles' = cycles (-) SetToBag({ cyc })
        /\ event' = [Event(cyc.origin, cyc.who, Outcome(threw), arg, 0)
                        EXCEPT !.wrote = wrote, !.answers = answers,
                               !.timestamp = cyc.timestamp]
        /\ IF cyc.origin = "initialize"
           THEN IF threw
                THEN /\ initPc' = [initPc EXCEPT ![cyc.who] = "failed"]
                     /\ UNCHANGED <<tasks, isRunning, stopped>>
                ELSE /\ initPc' = [initPc EXCEPT ![cyc.who] = "done"]
                     /\ startBody(cyc.who)
           ELSE UNCHANGED schedVars

\* await request(this.endpoint, query, variables, this.headers) is given no
\* timeout and no abort signal: a request the subgraph never answers never
\* settles, and the invocation that awaits it goes no further.
UpstreamHangs(cyc) ==
    /\ BagIn(cyc, cycles)
    /\ ~cyc.hung
    /\ isServiceAvailable
    /\ cycles' = (cycles (-) SetToBag({ cyc })) (+) SetToBag({ [cyc EXCEPT !.hung = TRUE] })
    /\ event' = NoEvent
    /\ UNCHANGED <<store, now, isServiceAvailable, hist, schedVars>>

CycleRun(cyc) ==
    /\ BagIn(cyc, cycles)
    /\ ~cyc.hung
    /\ \E answers \in AnswerSeqs, dbUp \in BOOLEAN :
          LET snapshots == CollectSnapshots(1, <<>>, cyc.timestamp, answers)
          IN  /\ store' = saveBatchStore(store, snapshots, dbUp)
              /\ Complete(cyc, snapshots, saveBatchWrote(snapshots, dbUp), answers)
    /\ UNCHANGED <<now, isServiceAvailable, hist>>

\* app.listen is called once scheduler.initialize() has returned or thrown.
Listening == initPc[ServerScheduler] \in {"done", "failed"}

\* POST /pairs/trigger-snapshot
RouteTrigger ==
    /\ Listening
    /\ BeginCycle("route", 0)
    /\ event' = NoEvent
    /\ UNCHANGED <<store, now, isServiceAvailable, hist, schedVars>>

\* Scheduler.triggerSnapshot
triggerSnapshot(s) ==
    /\ BeginCycle("triggerSnapshot", s)
    /\ event' = NoEvent
    /\ UNCHANGED <<store, now, isServiceAvailable, hist, schedVars>>

\* The cron callback of the recurring snapshot task.
TickSnapshot(task) ==
    /\ BagIn(task, tasks)
    /\ task.kind = "snapshot"
    /\ task.running
    /\ BeginCycle("tick", task.owner)
    /\ event' = Event("tickSnapshot", task.owner, "fired", <<>>, 0)
    /\ UNCHANGED <<store, now, isServiceAvailable, hist, schedVars>>

(***************************************************************************)
(* DataCollectionService.cleanupOldData, from the daily cron callback.     *)
(***************************************************************************)
RetentionDays == 90

TickCleanup(task) ==
    /\ BagIn(task, tasks)
    /\ task.kind = "cleanup"
    /\ task.running
    /\ \E dbUp \in BOOLEAN :
          LET kept == IF dbUp THEN deleteOldSnapshots(store, RetentionDays, now) ELSE store
          IN  /\ store' = kept
              /\ event' = [Event("tickCleanup", task.owner, "completed", <<>>,
                                 BagCardinality(store) - BagCardinality(kept))
                              EXCEPT !.wrote = IF dbUp THEN "ok" ELSE "failed"]
    /\ UNCHANGED <<now, collectVars, schedVars>>

(***************************************************************************)
(* Scheduler.initialize: initializeHistoricalData, then takeCurrentSnapshot,*)
(* then start().  initializeHistoricalData looks at each pair in turn and  *)
(* backfills the pairs that have no snapshot; it catches every error.      *)
(***************************************************************************)
IdleHist == [pc |-> "idle", i |-> 0, snapshots |-> <<>>, data |-> Null]

\* A startup that starts the cron tasks before it collects anything.
initializeStartFirst(s) ==
    /\ initPc[s] = "none"
    /\ initPc' = [initPc EXCEPT ![s] = "history"]
    /\ hist' = [hist EXCEPT ![s] = [pc |-> "check", i |-> 1, snapshots |-> <<>>, data |-> Null]]
    /\ startBody(s)
    /\ event' = NoEvent
    /\ UNCHANGED <<store, now, isServiceAvailable, cycles>>

initialize(s) ==
    /\ initPc[s] = "none"
    /\ initPc' = [initPc EXCEPT ![s] = "history"]
    /\ hist' = [hist EXCEPT ![s] = [pc |-> "check", i |-> 1, snapshots |-> <<>>, data |-> Null]]
    /\ event' = NoEvent
    /\ UNCHANGED <<store, now, isServiceAvailable, cycles, tasks, isRunning, stopped>>

\* The pair at index i is dealt with: on to the next, or out of the loop.
HistAdvance(s, i) ==
    IF i < Len(PAIR_ADDRESSES)
    THEN /\ hist' = [hist EXCEPT ![s] = [pc |-> "check", i |-> i + 1, snapshots |-> <<>>, data |-> Null]]
         /\ UNCHANGED initPc
    ELSE /\ hist' = [hist EXCEPT ![s] = IdleHist]
         /\ initPc' = [initPc EXCEPT ![s] = "snapshot"]

\* await getLatestSnapshot(pairAddress); a store error ends the whole loop.
HistCheck(s) ==
    /\ hist[s].pc = "check"
    /\ \E dbUp \in BOOLEAN :
          IF ~dbUp
          THEN /\ hist' = [hist EXCEPT ![s] = IdleHist]
               /\ initPc' = [initPc EXCEPT ![s] = "snapshot"]
          ELSE IF HasSnapshot(store, PAIR_ADDRESSES[hist[s].i])
          THEN HistAdvance(s, hist[s].i)
          ELSE /\ hist' = [hist EXCEPT ![s].pc = "fetch"]
               /\ UNCHANGED initPc
    /\ event' = NoEvent
    /\ UNCHANGED <<store, now, isServiceAvailable, cycles, tasks, isRunning, stopped>>

\* createInitialSnapshots up to the call of saveBatchSnapshots.
HistFetch(s) ==
    /\ hist[s].pc = "fetch"
    /\ \E answer \in Answers(PAIR_ADDRESSES[hist[s].i]), seed \in Seeds :
          LET pairAddress     == PAIR_ADDRESSES[hist[s].i]
              currentPairData == getPairData(pairAddress, answer)
          IN  IF currentPairData = Null
              THEN HistAdvance(s, hist[s].i)
              ELSE /\ hist' = [hist EXCEPT ![s].pc = "write",
                                 ![s].data = currentPairData,
                                 ![s].snapshots =
                                    InitialSnapshots(pairAddress, currentPairData, now, seed)]
                   /\ UNCHANGED initPc
    /\ event' = NoEvent
    /\ UNCHANGED <<store, now, isServiceAvailable, cycles, tasks, isRunning, stopped>>

\* The batch write of the backfill; createInitialSnapshots catches its error.
HistWrite(s) ==
    /\ hist[s].pc = "write"
    /\ \E dbUp \in BOOLEAN :
          /\ store' = saveBatchStore(store, hist[s].snapshots, dbUp)
          /\ event' = [Event("createInitialSnapshots", s, "success", hist[s].snapshots, 0)
                          EXCEPT !.wrote = saveBatchWrote(hist[s].snapshots, dbUp),
                                 !.answers = <<hist[s].data>>]
    /\ HistAdvance(s, hist[s].i)
    /\ UNCHANGED <<now, isServiceAvailable, cycles, tasks, isRunning, stopped>>

\* await this.dataCollectionService.takeCurrentSnapshot() of initialize.
InitTakeSnapshot(s) ==
    /\ initPc[s] = "snapshot"
    /\ \A c \in BagToSet(cycles) : ~(c.origin = "initialize" /\ c.who = s)
    /\ BeginCycle("initialize", s)
    /\ event' = NoEvent
    /\ UNCHANGED <<store, now, isServiceAvailable, hist, schedVars>>

AdvanceClock ==
    /\ now < MaxNow
    /\ now' = now + 1
    /\ event' = NoEvent
    /\ UNCHANGED <<store, collectVars, schedVars>>

(***************************************************************************)
(* APRService.calculateWindowAPR.  Its numbers are rationals <<n, d>> in   *)
(* lowest terms with d > 0, so that products, quotients and comparisons    *)
(* are exact.                                                              *)
(***************************************************************************)
RECURSIVE GCD(_, _)
GCD(a, b) == IF b = 0 THEN a ELSE GCD(b, a % b)

Rat(n, d) ==
    LET g == GCD(IF n < 0 THEN -n ELSE n, d)
    IN  <<n \div g, d \div g>>

Zero == <<0, 1>>

RatMul(a, b) == Rat(a[1] * b[1], a[2] * b[2])

\* a / b for b > 0.
RatDiv(a, b) == Rat(a[1] * b[2], a[2] * b[1])

RatLeq(a, b) == a[1] * b[2] <= b[1] * a[2]

RatMax0(a) == IF a[1] > 0 THEN a ELSE Zero

Abs(x) == IF x < 0 THEN -x ELSE x

\* A difference taken as it is.
Signed(x) == x

\* Math.max(0, x)
Max0(x) == IF x > 0 THEN x ELSE 0

feeRate == <<3, 1000>>
hoursInYear == 365 * 24

Unsorted(snapshots) == snapshots

\* snapshots.sort((a, b) => a.timestamp.getTime() - b.timestamp.getTime()):
\* ascending, and stable.
RECURSIVE SortByTime(_)
SortByTime(snapshots) ==
    IF snapshots = <<>> THEN <<>>
    ELSE LET head == Head(snapshots)
             rest == SortByTime(Tail(snapshots))
             k == Cardinality({ i \in DOMAIN rest : rest[i].timestamp < head.timestamp })
         IN  SubSeq(rest, 1, k) \o <<head>> \o SubSeq(rest, k + 1, Len(rest))

volumeOfLatest(sortedSnapshots) == sortedSnapshots[Len(sortedSnapshots)].volumeUSD

volumeIncrease(sortedSnapshots) ==
    LET latestSnapshot == sortedSnapshots[Len(sortedSnapshots)]
        oldestSnapshot == sortedSnapshots[1]
    IN  Max0(latestSnapshot.volumeUSD - oldestSnapshot.volumeUSD)

RECURSIVE totalLiquidity(_)
totalLiquidity(sortedSnapshots) ==
    IF sortedSnapshots = <<>> THEN 0
    ELSE Head(sortedSnapshots).reserveUSD + totalLiquidity(Tail(sortedSnapshots))

calculateWindowAPR(snapshots, windowHours) ==
    IF Len(snapshots) < 2
    THEN [apr |-> Zero, totalFees |-> Zero, averageLiquidity |-> Zero]
    ELSE LET sortedSnapshots == SortByTime(snapshots)
             totalFees == RatMul(Rat(volumeIncrease(sortedSnapshots), 1), feeRate)
             averageLiquidity == Rat(totalLiquidity(sortedSnapshots), Len(sortedSnapshots))
             apr == IF averageLiquidity[1] > 0
                    THEN RatMul(RatMul(RatDiv(totalFees, averageLiquidity),
                                       Rat(hoursInYear, windowHours)),
                                Rat(100, 1))
                    ELSE Zero
         IN  [apr |-> RatMax0(apr), totalFees |-> totalFees,
              averageLiquidity |-> averageLiquidity]

\* A getCurrentAPR that answers with a point as soon as the window holds one
\* snapshot.
getCurrentAPRFromOne(st, pairAddress, windowHours, at) ==
    LET snapshots == getSnapshotsForAPR(st, pairAddress, at, windowHours)
    IN  IF Len(snapshots) < 1 THEN <<>>
        ELSE LET apr == calculateWindowAPR(snapshots, windowHours)
                 latestSnapshot == snapshots[Len(snapshots)]
             IN  << [timestamp |-> at, apr |-> apr.apr, windowHours |-> windowHours,
                     reserveUSD |-> latestSnapshot.reserveUSD,
                     volumeUSD |-> latestSnapshot.volumeUSD,
                     feesUSD |-> apr.totalFees, feeRate |-> feeRate] >>

\* APRService.getCurrentAPR: the window that ends now; <<>> is null.
getCurrentAPR(st, pairAddress, windowHours, at) ==
    LET snapshots == getSnapshotsForAPR(st, pairAddress, at, windowHours)
    IN  IF Len(snapshots) < 2 THEN <<>>
        ELSE LET apr == calculateWindowAPR(snapshots, windowHours)
                 latestSnapshot == snapshots[Len(snapshots)]
             IN  << [timestamp |-> at, apr |-> apr.apr, windowHours |-> windowHours,
                     reserveUSD |-> latestSnapshot.reserveUSD,
                     volumeUSD |-> latestSnapshot.volumeUSD,
                     feesUSD |-> apr.totalFees, feeRate |-> feeRate] >>

\* The slices handed to calculateWindowAPR by a direct caller: snapshots of one
\* pair at different times that fit in the window, in any order.
AprStamps == {0, 1, 24}
AprAmounts == { <<1000, 10000>>, <<1000, 20000>>, <<1000, 30000>>, <<3000, 10000>> }

AprSnapshots ==
    { MakeSnapshot(ts, pairAddress1, rv[1], rv[2]) : ts \in AprStamps, rv \in AprAmounts }

Slices(windowHours) ==
    { sl \in UNION { [1..n -> AprSnapshots] : n \in 0..3 } :
        \A i, j \in DOMAIN sl :
            /\ i # j => sl[i].timestamp # sl[j].timestamp
            /\ sl[i].timestamp - sl[j].timestamp <= windowHours }

\* The slices of a store that bulk writes have filled: reserves of zero or below
\* next to ordinary ones, volumes that rise or fall.
EdgeSnapshots ==
    { MakeSnapshot(ts, pairAddress1, rv[1], rv[2]) :
        ts \in {0, 1},
        rv \in { <<0, 10000>>, <<0, 20000>>, <<-1000, 10000>>,
                 <<1000, 10000>>, <<1000, 20000>> } }

EdgeSlices(windowHours) ==
    { sl \in UNION { [1..n -> EdgeSnapshots] : n \in 0..2 } :
        \A i, j \in DOMAIN sl : i # j => sl[i].timestamp # sl[j].timestamp }

(***************************************************************************)
(* A read of the repository by a direct caller: it leaves every variable   *)
(* but the record of the call as it was, and throws when the database does *)
(* not answer.                                                             *)
(***************************************************************************)
Read(op, query, rows, dbUp) ==
    /\ event' = IF dbUp
                THEN [Event(op, 0, "ok", <<>>, 0) EXCEPT !.query = query, !.rows = rows]
                ELSE [Event(op, 0, "StoreError", <<>>, 0) EXCEPT !.query = query]
    /\ UNCHANGED <<store, now, collectVars, schedVars>>

EndTimes == {0, 1, 2}
Windows == {1, 12, 24}
PurgeDays == {0, 1}

\* deleteOldSnapshots by a direct caller, who sees the count or the error.
DeleteOld(olderThanDays, dbUp) ==
    LET kept == IF dbUp THEN deleteOldSnapshots(store, olderThanDays, now) ELSE store
    IN  /\ store' = kept
        /\ event' = [Event("deleteOldSnapshots", 0, IF dbUp THEN "ok" ELSE "StoreError", <<>>,
                           BagCardinality(store) - BagCardinality(kept))
                        EXCEPT !.query = [olderThanDays |-> olderThanDays]]
        /\ UNCHANGED <<now, collectVars, schedVars>>

(***************************************************************************)
(* APRService.getAPRTimeSeries.  A Date argument is <<t>>, undefined is    *)
(* <<>>; failing holds the timestamps whose window read throws.            *)
(***************************************************************************)
SevenDays == 7 * 24

DateOpts == { <<>>, <<1>> }

\* The window reads that throw during one call: none, or the one that ends at 1.
FailingReads == { {}, {1} }

\* The body of the loop for one snapshot: a point, or nothing.
SeriesPoint(st, pairAddress, windowHours, snapshot, failing) ==
    LET windowSnapshots ==
            getSnapshotsForAPR(st, pairAddress, snapshot.timestamp, windowHours)
        apr == calculateWindowAPR(windowSnapshots, windowHours)
    IN  IF snapshot.timestamp \in failing \/ Len(windowSnapshots) < 2
        THEN <<>>
        ELSE << [timestamp |-> snapshot.timestamp, apr |-> apr.apr,
                 windowHours |-> windowHours,
                 reserveUSD |-> snapshot.reserveUSD, volumeUSD |-> snapshot.volumeUSD,
                 feesUSD |-> apr.totalFees, feeRate |-> feeRate] >>

RECURSIVE SeriesPoints(_, _, _, _, _)
SeriesPoints(st, pairAddress, windowHours, snapshots, failing) ==
    IF snapshots = <<>> THEN <<>>
    ELSE SeriesPoint(st, pairAddress, windowHours, Head(snapshots), failing)
         \o SeriesPoints(st, pairAddress, windowHours, Tail(snapshots), failing)

\* if (snapshots.length < 2) return [];
seriesTooShort(snapshots) == Len(snapshots) < 2

getAPRTimeSeries(st, pairAddress, windowHours, startDate, endDate, at, failing) ==
    LET endAt == IF endDate # <<>> THEN endDate[1] ELSE at
        startAt == IF startDate # <<>> THEN startDate[1] ELSE endAt - SevenDays
        snapshots == getSnapshots(st, pairAddress,
                                  [startDate |-> toISOString(startAt),
                                   endDate |-> toISOString(endAt),
                                   limit |-> <<>>, offset |-> <<>>])
    IN  IF seriesTooShort(snapshots) THEN <<>>
        ELSE SortByTime(SeriesPoints(st, pairAddress, windowHours, snapshots, failing))

(***************************************************************************)
(* GET /pairs/:pairAddress/apr.  The request carries the query strings     *)
(* window, startDate and endDate ("" when absent); connected is            *)
(* mongoose.connection.readyState === 1; fault tells which of the reads    *)
(* behind the request throw.                                               *)
(***************************************************************************)
WindowParams == { "", "1", "6", "12", "24", "abc" }

\* parseInt of a query string; <<>> is NaN.
parseInt(str) ==
    CASE str = "1"  -> <<1>>
      [] str = "6"  -> <<6>>
      [] str = "12" -> <<12>>
      [] str = "24" -> <<24>>
      [] str = "48" -> <<48>>
      [] OTHER      -> <<>>

\* config.initialHoursBack for a value of INITIAL_HOURS_BACK in the environment
\* ("" when it is not set).  Nothing reads it.
HoursBackSettings == { "", "24" }

initialHoursBack(env) == parseInt(IF env # "" THEN env ELSE "48")[1]

\* A check that lets every number through.
isValidWindowNumber(windowHours) == windowHours # <<>>

\* [1, 12, 24].includes(windowHours)
isValidWindow(windowHours) == windowHours \in { <<1>>, <<12>>, <<24>> }

\* The messages of the errors the driver throws: a buffered operation that
\* timed out, and a connection that closed under the query.
BufferingTimedOut == "Operation snapshots.find() buffering timed out after 10000ms"
ConnectionClosed == "connection 1 to 127.0.0.1:27017 closed"

\* series: the message thrown by the read of the range ("" when it succeeds);
\* windows: the timestamps whose window read throws; current: whether the
\* window read of getCurrentAPR throws.  Either no read throws, or the first
\* one does, or all those after the first do.
RouteFaults ==
    { [series |-> m, windows |-> {}, current |-> FALSE] :
          m \in {"", BufferingTimedOut, ConnectionClosed} }
    \cup { [series |-> "", windows |-> Stamps, current |-> TRUE] }

NoFault == [series |-> "", windows |-> {}, current |-> FALSE]

Response(status, error, data, calls) ==
    [status |-> status, error |-> error, data |-> data, calls |-> calls]

handleDatabaseError(message, calls) ==
    IF message = BufferingTimedOut
    THEN Response("503", "Database connection unavailable", <<>>, calls)
    ELSE Response("500", "Internal server error", <<>>, calls)

\* A route that answers with the series as it is, empty or not.
aprRouteNoFallback(st, at, connected, request, fault) ==
    LET windowHours == IF request.window # "" THEN parseInt(request.window) ELSE <<24>>
        endDateTime == IF request.endDate # "" THEN newDate(request.endDate) ELSE at
        startDateTime == IF request.startDate # "" THEN newDate(request.startDate)
                         ELSE endDateTime - SevenDays
        series == [service |-> "getAPRTimeSeries", windowHours |-> windowHours[1]]
        aprData == getAPRTimeSeries(st, request.pairAddress, windowHours[1],
                                    <<startDateTime>>, <<endDateTime>>, at, fault.windows)
    IN  IF ~connected
        THEN Response("503", "Database connection unavailable", <<>>, <<>>)
        ELSE IF ~isValidWindow(windowHours)
        THEN Response("400", "Invalid window parameter. Must be 1, 12, or 24 hours",
                      <<>>, <<>>)
        ELSE IF fault.series # ""
        THEN handleDatabaseError(fault.series, <<series>>)
        ELSE Response("200", "", aprData, <<series>>)

aprRoute(st, at, connected, request, fault) ==
    LET windowHours == IF request.window # "" THEN parseInt(request.window) ELSE <<24>>
        endDateTime == IF request.endDate # "" THEN newDate(request.endDate) ELSE at
        startDateTime == IF request.startDate # "" THEN newDate(request.startDate)
                         ELSE endDateTime - SevenDays
        series == [service |-> "getAPRTimeSeries", windowHours |-> windowHours[1]]
        current == [service |-> "getCurrentAPR", windowHours |-> windowHours[1]]
        aprData == getAPRTimeSeries(st, request.pairAddress, windowHours[1],
                                    <<startDateTime>>, <<endDateTime>>, at, fault.windows)
        currentAPR == IF fault.current THEN <<>>
                      ELSE getCurrentAPR(st, request.pairAddress, windowHours[1], at)
    IN  IF ~connected
        THEN Response("503", "Database connection unavailable", <<>>, <<>>)
        ELSE IF ~isValidWindow(windowHours)
        THEN Response("400", "Invalid window parameter. Must be 1, 12, or 24 hours",
                      <<>>, <<>>)
        ELSE IF fault.series # ""
        THEN handleDatabaseError(fault.series, <<series>>)
        ELSE IF aprData = <<>>
        THEN Response("200", "", currentAPR, <<series, current>>)
        ELSE Response("200", "", aprData, <<series>>)

(***************************************************************************)
(* The calls and the steps.                                                *)
(***************************************************************************)
SaveSnapshotCall == \E c \in Candidates, dbUp \in BOOLEAN : saveSnapshot(c, dbUp)

SaveBatchCall == \E b \in Batches, dbUp \in BOOLEAN : saveBatchSnapshots(b, dbUp)

\* A start() that schedules is one of at most MaxStarts.
StartCall ==
    \E s \in Schedulers : (isRunning[s] \/ BagCardinality(tasks) < 2 * MaxStarts) /\ start(s)

StopCall == \E s \in Schedulers : stop(s)

TriggerCall == \E s \in Schedulers : triggerSnapshot(s)

SnapshotTick == \E task \in BagToSet(tasks) : TickSnapshot(task)

CleanupTick == \E task \in BagToSet(tasks) : TickCleanup(task)

RunStep == \E cyc \in BagToSet(cycles) : CycleRun(cyc)

HangStep == \E cyc \in BagToSet(cycles) : UpstreamHangs(cyc)

ServerStart == initialize(ServerScheduler)

HistCheckStep == \E s \in Schedulers : HistCheck(s)

HistFetchStep == \E s \in Schedulers : HistFetch(s)

HistWriteStep == \E s \in Schedulers : HistWrite(s)

InitSnapshotStep == \E s \in Schedulers : InitTakeSnapshot(s)

\* initialize() run again over the same database once the run before it has
\* left initializeHistoricalData, as by a process that is restarted.
InitializeCall ==
    \E s \in Schedulers : (\A t \in Schedulers : hist[t] = IdleHist) /\ initialize(s)

\* A read that finds the database down throws whatever its arguments were.
GetSnapshotsCall ==
    \/ \E a \in AddressInputs, params \in SnapshotQueryParams :
          Read("getSnapshots", [pairAddress |-> a, params |-> params],
               getSnapshots(store, a, params), TRUE)
    \/ Read("getSnapshots", <<>>, <<>>, FALSE)

GetLatestSnapshotCall ==
    \/ \E a \in AddressInputs :
          Read("getLatestSnapshot", [pairAddress |-> a], getLatestSnapshot(store, a), TRUE)
    \/ Read("getLatestSnapshot", <<>>, <<>>, FALSE)

GetSnapshotsForAPRCall ==
    \/ \E a \in AddressInputs, endTime \in EndTimes, windowHours \in Windows :
          Read("getSnapshotsForAPR",
               [pairAddress |-> a, endTime |-> endTime, windowHours |-> windowHours],
               getSnapshotsForAPR(store, a, endTime, windowHours), TRUE)
    \/ Read("getSnapshotsForAPR", <<>>, <<>>, FALSE)

GetStatsCall == \E dbUp \in BOOLEAN : Read("getStats", <<>>, <<getStats(store)>>, dbUp)

\* getCurrentAPR catches every error and answers null.
GetCurrentAPRCall ==
    \/ \E a \in AddressInputs, windowHours \in Windows :
          Read("getCurrentAPR", [pairAddress |-> a, windowHours |-> windowHours],
               getCurrentAPR(store, a, windowHours, now), TRUE)
    \/ /\ event' = Event("getCurrentAPR", 0, "ok", <<>>, 0)
       /\ UNCHANGED <<store, now, collectVars, schedVars>>

CalculateWindowAPRCall ==
    \E windowHours \in Windows : \E snapshots \in Slices(windowHours) :
        /\ event' = [Event("calculateWindowAPR", 0, "ok", <<>>, 0)
                        EXCEPT !.query = [snapshots |-> snapshots,
                                          windowHours |-> windowHours],
                               !.rows = <<calculateWindowAPR(snapshots, windowHours)>>]
        /\ UNCHANGED <<store, now, collectVars, schedVars>>

CalculateWindowAPREdgeCall ==
    \E windowHours \in Windows : \E snapshots \in EdgeSlices(windowHours) :
        /\ event' = [Event("calculateWindowAPR", 0, "ok", <<>>, 0)
                        EXCEPT !.query = [snapshots |-> snapshots,
                                          windowHours |-> windowHours],
                               !.rows = <<calculateWindowAPR(snapshots, windowHours)>>]
        /\ UNCHANGED <<store, now, collectVars, schedVars>>

DeleteOldSnapshotsCall == \E days \in PurgeDays, dbUp \in BOOLEAN : DeleteOld(days, dbUp)

\* getAPRTimeSeries by a direct caller: the read of the range throws to the
\* caller, the read of a window is caught and its point left out.
GetAPRTimeSeriesCall ==
    \/ \E a \in AddressInputs, windowHours \in Windows,
          startDate \in DateOpts, endDate \in DateOpts, failing \in FailingReads :
          Read("getAPRTimeSeries",
               [pairAddress |-> a, windowHours |-> windowHours,
                startDate |-> startDate, endDate |-> endDate, failing |-> failing],
               getAPRTimeSeries(store, a, windowHours, startDate, endDate, now, failing),
               TRUE)
    \/ Read("getAPRTimeSeries", <<>>, <<>>, FALSE)

\* One request to GET /pairs/:pairAddress/apr, answered.  A fault is one of a
\* connected database.
AprRouteCall ==
    \E pairAddress \in {pairAddress1}, window \in WindowParams,
       startDate \in {""}, endDate \in EndDates,
       connected \in BOOLEAN, fault \in RouteFaults :
        LET request == [pairAddress |-> pairAddress, window |-> window,
                        startDate |-> startDate, endDate |-> endDate]
            res == aprRoute(store, now, connected, request, fault)
        IN  /\ connected \/ fault = NoFault
            /\ event' = [Event("GET /pairs/:pairAddress/apr", 0, res.status,
                               <<[connected |-> connected, fault |-> fault]>>, 0)
                            EXCEPT !.query = request, !.rows = res.data,
                                   !.answers = res.calls, !.wrote = res.error]
            /\ UNCHANGED <<store, now, collectVars, schedVars>>

Init ==
    /\ store = EmptyBag
    /\ now = 0
    /\ event = NoEvent
    /\ isServiceAvailable \in BOOLEAN
    /\ cycles = EmptyBag
    /\ hist = [s \in Schedulers |-> IdleHist]
    /\ initPc = [s \in Schedulers |-> "none"]
    /\ isRunning = [s \in Schedulers |-> FALSE]
    /\ tasks = EmptyBag
    /\ stopped = [s \in Schedulers |-> FALSE]

\* The repository under direct calls.
NextStore == SaveSnapshotCall \/ SaveBatchCall

SpecStore == Init /\ [][NextStore]_vars

\* Scheduler instances under any order of start() and stop() calls, with cron
\* firing the tasks they schedule.
NextSched ==
    \/ StartCall \/ StopCall
    \/ SnapshotTick \/ CleanupTick
    \/ RunStep

SpecSched == Init /\ [][NextSched]_vars

\* The server within one hour of the clock: startServer initializes its one
\* scheduler and then listens; the route triggers collections; cron fires.
NextServer ==
    \/ ServerStart
    \/ HistCheckStep \/ HistFetchStep \/ HistWriteStep \/ InitSnapshotStep
    \/ RouteTrigger
    \/ SnapshotTick \/ CleanupTick
    \/ RunStep

SpecServer == Init /\ [][NextServer]_vars

\* The repository read and purged by direct callers as time passes, over the
\* stores that saveSnapshot builds.
NextQuery ==
    \/ SaveSnapshotCall
    \/ GetSnapshotsCall \/ GetLatestSnapshotCall \/ GetSnapshotsForAPRCall \/ GetStatsCall
    \/ GetCurrentAPRCall
    \/ DeleteOldSnapshotsCall
    \/ AdvanceClock

SpecQuery == Init /\ [][NextQuery]_vars

\* calculateWindowAPR applied to the slices of Slices.
NextAPR == CalculateWindowAPRCall

SpecAPR == Init /\ [][NextAPR]_vars

\* The APR series computed for direct callers over the stores that saveSnapshot
\* builds.
NextSeries == SaveSnapshotCall \/ GetAPRTimeSeriesCall

SpecSeries == Init /\ [][NextSeries]_vars

\* The APR route answering requests, as time passes, over the stores that
\* saveSnapshot builds.
NextRoute == SaveSnapshotCall \/ AprRouteCall \/ AdvanceClock

SpecRoute == Init /\ [][NextRoute]_vars

\* initializeHistoricalData run and run again over one database.
NextInit == InitializeCall \/ HistCheckStep \/ HistFetchStep \/ HistWriteStep

SpecInit == Init /\ [][NextInit]_vars

\* calculateWindowAPR applied to the slices of EdgeSlices.
NextAPREdge == CalculateWindowAPREdgeCall

SpecAPREdge == Init /\ [][NextAPREdge]_vars

\* The repository written and read by direct callers.
NextPools ==
    \/ SaveSnapshotCall \/ SaveBatchCall
    \/ GetSnapshotsCall \/ GetLatestSnapshotCall \/ GetSnapshotsForAPRCall

SpecPools == Init /\ [][NextPools]_vars

\* Collections triggered by hand over a subgraph that may leave a request
\* unanswered.  The event loop runs every continuation that is ready: an
\* invocation whose requests have settled goes on to its write and returns.
CycleRecords ==
    { [origin |-> "triggerSnapshot", who |-> s, timestamp |-> t, hung |-> FALSE] :
        s \in Schedulers, t \in 0..MaxNow }

NextTerm == TriggerCall \/ RunStep \/ HangStep \/ AdvanceClock

SpecTerm ==
    /\ Init /\ [][NextTerm]_vars
    /\ \A cyc \in CycleRecords : WF_vars(CycleRun(cyc))

\* Collections triggered by hand as time passes, each completing whenever its
\* requests and its write do, and the latest snapshot read in between.
NextCollect == TriggerCall \/ RunStep \/ AdvanceClock \/ GetLatestSnapshotCall

SpecCollect == Init /\ [][NextCollect]_vars

\* Everything, with Scheduler.triggerSnapshot (which the server never calls) and
\* the passage of time.
Next ==
    \/ NextStore \/ NextSched \/ NextServer \/ NextQuery \/ NextAPR \/ TriggerCall
    \/ NextSeries \/ NextRoute \/ NextInit \/ NextAPREdge \/ NextTerm
    \/ NextPools

Spec == Init /\ [][Next]_vars

(***************************************************************************)
(* C1: the store holds exactly one snapshot per (pairAddress, timestamp),  *)
(* and after a successful saveSnapshot / saveBatchSnapshots the document   *)
(* at each written key carries the values of the last candidate written to *)
(* that key.                                                               *)
(***************************************************************************)
KeyUnique ==
    \A d \in Docs :
        /\ CopiesIn(d, store) = 1
        /\ \A e \in Docs : SameKey(d, e) => d = e

LastWriteWins ==
    (event.op \in {"saveSnapshot", "saveBatchSnapshots"} /\ event.result = "ok") =>
        \A i \in 1..Len(event.arg) :
            (\A j \in (i+1)..Len(event.arg) : ~SameKey(event.arg[i], event.arg[j])) =>
                Matching(store, event.arg[i].timestamp, toLowerCase(event.arg[i].pairAddress))
                    = { MakeSnapshot(event.arg[i].timestamp,
                                     toLowerCase(event.arg[i].pairAddress),
                                     event.arg[i].reserveUSD, event.arg[i].volumeUSD) }

C1_OneSnapshotPerKey == KeyUnique /\ LastWriteWins

\* A batch wrote twice, with different values, to a key that already held a document.
C1_Witness ==
    /\ event.op = "saveBatchSnapshots"
    /\ event.result = "ok"
    /\ Len(event.arg) = 2
    /\ SameKey(event.arg[1], event.arg[2])
    /\ event.arg[1].reserveUSD # event.arg[2].reserveUSD
    /\ event.matched = 2

(***************************************************************************)
(* C3: saveSnapshot of a candidate with a negative reserveUSD or volumeUSD *)
(* fails with a ValidationError and leaves the store as it was.            *)
(***************************************************************************)
Negative(c) == c.reserveUSD < 0 \/ c.volumeUSD < 0

C3_NegativeRejected ==
    [][event'.op = "saveSnapshot" =>
          \A c \in Candidates, dbUp \in BOOLEAN :
              (Negative(c) /\ saveSnapshot(c, dbUp)) =>
                  (store' = store /\ event'.result = "ValidationError")]_vars

\* A negative candidate was refused by a store that already holds documents.
C3_Witness ==
    /\ event.op = "saveSnapshot"
    /\ event.result = "ValidationError"
    /\ Negative(event.arg[1])
    /\ store # EmptyBag

(***************************************************************************)
(* C2: every persisted snapshot has reserveUSD >= 0 and volumeUSD >= 0,    *)
(* whichever write path produced it: saveSnapshot, the batch of            *)
(* takeCurrentSnapshot, or the backfill batch of createInitialSnapshots.   *)
(***************************************************************************)
C2_StoredNonNegative ==
    \A d \in Docs : d.reserveUSD >= 0 /\ d.volumeUSD >= 0

(***************************************************************************)
(* C4: when takeCurrentSnapshot returns and its store write did not fail,  *)
(* it has returned normally, and every pair the data source had data for   *)
(* has its snapshot of this invocation in the store, whatever the data     *)
(* source had for the other pair.                                          *)
(***************************************************************************)
CycleOrigins == {"route", "triggerSnapshot", "tick", "initialize"}

CycleReturned == event.op \in CycleOrigins

\* What getPairData gave for the i-th pair of the invocation that has just returned.
Fetched(i) == getPairData(PAIR_ADDRESSES[i], event.answers[i])

StagedFor(i) == { k \in 1..Len(event.arg) : event.arg[k].pairAddress = PAIR_ADDRESSES[i] }

C4_OtherPairsPersisted ==
    (CycleReturned /\ event.wrote # "failed") =>
        /\ event.result = "success"
        /\ \A i \in 1..Len(PAIR_ADDRESSES) :
              Fetched(i) # Null =>
                  MakeSnapshot(event.timestamp, PAIR_ADDRESSES[i],
                               parseFloat(Fetched(i).reserveUSD),
                               parseFloat(Fetched(i).volumeUSD)) \in Docs

\* The first pair had no data, the second had, and one snapshot was written.
C4_Witness ==
    /\ CycleReturned
    /\ event.answers[1].kind = "nopair"
    /\ event.answers[2].kind = "data"
    /\ event.wrote = "ok"
    /\ Len(event.arg) = 1
    /\ event.arg[1] \in Docs

C6_WriteFailureReported ==
    (CycleReturned /\ event.wrote = "failed") => event.result = "failure"

(***************************************************************************)
(* C7: at most one invocation of takeCurrentSnapshot is in flight.         *)
(***************************************************************************)
C7_NoOverlap == InFlight <= 1

(***************************************************************************)
(* C8: for each scheduler, at most one snapshot task and at most one       *)
(* cleanup task are running, whatever start() and stop() calls were made.  *)
(***************************************************************************)
RunningTasks(s, kind) == CopiesIn(Task(s, kind), tasks)

C8_AtMostOneTaskOfEachKind ==
    \A s \in Schedulers :
        /\ RunningTasks(s, "snapshot") <= 1
        /\ RunningTasks(s, "cleanup") <= 1

\* start() on a running scheduler that was started, stopped and started before.
C8_Witness ==
    /\ event.op = "start"
    /\ event.result = "already running"
    /\ \E task \in BagToSet(tasks) : task.owner = event.who /\ ~task.running
    /\ RunningTasks(event.who, "snapshot") = 1
    /\ RunningTasks(event.who, "cleanup") = 1

(***************************************************************************)
(* C9: from a stop() of a scheduler to its next start(), none of its tasks *)
(* is running, and no cron callback of it fires.                           *)
(***************************************************************************)
C9_StopCancelsTriggers ==
    /\ \A s \in Schedulers :
          stopped[s] => RunningTasks(s, "snapshot") + RunningTasks(s, "cleanup") = 0
    /\ event.op \in {"tickSnapshot", "tickCleanup"} => ~stopped[event.who]

\* stop() has just stopped a scheduler that had tasks.
C9_Witness ==
    /\ event.op = "stop"
    /\ event.result = "stopped"
    /\ \E task \in BagToSet(tasks) : task.owner = event.who
    /\ stopped[event.who]

(***************************************************************************)
(* C10: until initialize() has seen its takeCurrentSnapshot return, the    *)
(* scheduler has no cron task and is not running; that takeCurrentSnapshot *)
(* is called once initializeHistoricalData has returned, and only once; a  *)
(* snapshot tick fires only when initialize() is done.                     *)
(***************************************************************************)
InitCycles(s) ==
    BagCardinality([c \in { x \in BagToSet(cycles) : x.origin = "initialize" /\ x.who = s }
                       |-> cycles[c]])

C10_StartupOrder ==
    /\ \A s \in Schedulers :
          /\ initPc[s] \in {"none", "history", "snapshot"} =>
                /\ ~isRunning[s]
                /\ \A task \in BagToSet(tasks) : task.owner # s
          /\ initPc[s] \in {"none", "history", "done"} => InitCycles(s) = 0
          /\ initPc[s] = "snapshot" =>
                /\ hist[s] = IdleHist
                /\ InitCycles(s) <= 1
          /\ initPc[s] # "history" => hist[s] = IdleHist
    /\ event.op = "tickSnapshot" => initPc[event.who] = "done"

\* The first snapshot tick after a startup that backfilled a pair.
C10_Witness ==
    /\ event.op = "tickSnapshot"
    /\ initPc[event.who] = "done"
    /\ BagCardinality(store) >= HoursBack

(***************************************************************************)
(* C11: getSnapshotsForAPR(pair, endTime, windowHours) returns all and     *)
(* only the snapshots of the pair whose timestamp lies in the closed       *)
(* interval [endTime - windowHours, endTime], in ascending order of        *)
(* timestamp; it never returns a snapshot outside that interval.           *)
(***************************************************************************)
Returned(op) == event.op = op /\ event.result = "ok"

InWindow(d, q) ==
    /\ d.pairAddress = toLowerCase(q.pairAddress)
    /\ q.endTime - q.windowHours <= d.timestamp
    /\ d.timestamp <= q.endTime

Ascending(rows) ==
    \A i, j \in DOMAIN rows : i < j => rows[i].timestamp < rows[j].timestamp

C11_WindowSliceExact ==
    Returned("getSnapshotsForAPR") =>
        /\ \A i \in DOMAIN event.rows :
              event.rows[i] \in Docs /\ InWindow(event.rows[i], event.query)
        /\ \A d \in Docs :
              InWindow(d, event.query) => \E i \in DOMAIN event.rows : event.rows[i] = d
        /\ Ascending(event.rows)

\* A slice of two snapshots, the first of them exactly windowHours before
\* endTime, taken from a store that also holds a snapshot of the other pair.
C11_Witness ==
    /\ Returned("getSnapshotsForAPR")
    /\ Len(event.rows) = 2
    /\ event.rows[1].timestamp = event.query.endTime - event.query.windowHours
    /\ \E d \in Docs : d.pairAddress # toLowerCase(event.query.pairAddress)

(***************************************************************************)
(* C12: a deleteOldSnapshots(days) that succeeds removes all and only the  *)
(* snapshots, of every pair, whose timestamp is earlier than now - days,   *)
(* and returns how many it removed; called again at once with the same     *)
(* days it removes nothing, returns 0 and leaves the store as it was.      *)
(***************************************************************************)
Purged == event'.op = "deleteOldSnapshots" /\ event'.result = "ok"

C12_PurgeExactAndIdempotent ==
    [][Purged =>
          LET cutoffDate == now - event'.query.olderThanDays * 24
          IN  /\ DOMAIN store' \subseteq DOMAIN store
              /\ \A d \in DOMAIN store :
                    IF d.timestamp < cutoffDate
                    THEN d \notin DOMAIN store'
                    ELSE d \in DOMAIN store' /\ store'[d] = store[d]
              /\ event'.matched = BagCardinality(store) - BagCardinality(store')
              /\ (Returned("deleteOldSnapshots") /\ event.query = event'.query)
                    => (event'.matched = 0 /\ store' = store)]_vars

\* A purge that removed a snapshot of each pair and kept a later one.
C12_Witness ==
    /\ Returned("deleteOldSnapshots")
    /\ event.matched = 2
    /\ store # EmptyBag
    /\ \A d \in Docs : d.timestamp >= now - event.query.olderThanDays * 24

(***************************************************************************)
(* C13: a key (pairAddress, timestamp) that is in the store is still in    *)
(* the store after every step, unless the step is a deleteOldSnapshots     *)
(* whose cutoff is later than the timestamp of the key.                    *)
(***************************************************************************)
KeyKept(d) == \E e \in DOMAIN store' : SameKey(d, e)

PurgeCutoff ==
    IF event'.op = "tickCleanup"
    THEN now - RetentionDays * 24
    ELSE now - event'.query.olderThanDays * 24

OnePair(b) ==
    /\ b # <<>>
    /\ \A i \in DOMAIN b : toLowerCase(b[i].pairAddress) = toLowerCase(b[1].pairAddress)

DistinctKeys(b) ==
    Cardinality({ <<toLowerCase(b[i].pairAddress), b[i].timestamp>> : i \in DOMAIN b })

LastOfKey(b, i) == \A j \in DOMAIN b : j > i => ~SameKey(b[i], b[j])

SameValues(a, b) == a.reserveUSD = b.reserveUSD /\ a.volumeUSD = b.volumeUSD

C14_BatchThenQuery ==
    [][(/\ event'.op = "saveBatchSnapshots"
        /\ event'.result = "ok"
        /\ OnePair(event'.arg)
        /\ ~HasSnapshot(store, event'.arg[1].pairAddress))
       => LET b == event'.arg
              rows == getSnapshots(store', b[1].pairAddress, NoParams)
          IN  /\ Len(rows) = DistinctKeys(b)
              /\ \A i \in DOMAIN b :
                    LastOfKey(b, i) =>
                        \E k \in DOMAIN rows :
                            SameKey(rows[k], b[i]) /\ SameValues(rows[k], b[i])]_vars

\* A batch of two different candidates of one key has been written to a store
\* that had nothing at the key, and the query returns one record.
C14_Witness ==
    /\ Returned("saveBatchSnapshots")
    /\ Len(event.arg) = 2
    /\ event.arg[1] # event.arg[2]
    /\ SameKey(event.arg[1], event.arg[2])
    /\ event.matched = 1
    /\ Len(getSnapshots(store, event.arg[1].pairAddress, NoParams)) = 1

(***************************************************************************)
(* C15: getSnapshots(pair, {startDate, endDate, limit, offset}) returns    *)
(* only snapshots of the pair whose timestamp is not before startDate and  *)
(* not after endDate (each bound only when it is given), in descending     *)
(* order of timestamp, without the first offset of them, and at most limit *)
(* of them; when nothing matches it returns the empty sequence.            *)
(***************************************************************************)
Matches(d, q) ==
    /\ d.pairAddress = toLowerCase(q.pairAddress)
    /\ q.params.startDate # "" => d.timestamp >= newDate(q.params.startDate)
    /\ q.params.endDate # "" => d.timestamp <= newDate(q.params.endDate)

Later(d, q) == { x \in Docs : Matches(x, q) /\ x.timestamp > d.timestamp }

Given(n) == IF n = <<>> THEN 0 ELSE n[1]

C15_QueryFilteredAndPaged ==
    Returned("getSnapshots") =>
        LET q == event.query
            rows == event.rows
            total == Cardinality({ d \in Docs : Matches(d, q) })
            left == IF total > Given(q.params.offset) THEN total - Given(q.params.offset) ELSE 0
        IN  /\ \A i \in DOMAIN rows :
                  /\ rows[i] \in Docs
                  /\ Matches(rows[i], q)
                  /\ Cardinality(Later(rows[i], q)) = Given(q.params.offset) + i - 1
            /\ q.params.limit # <<>> => Len(rows) <= q.params.limit[1]
            /\ q.params.limit = <<>> => Len(rows) = left
            /\ q.params.limit # <<>> => (Len(rows) = left \/ Len(rows) = q.params.limit[1])

(***************************************************************************)
(* C16: getLatestSnapshot(pair) returns the snapshot of the pair with the  *)
(* greatest timestamp, and null exactly when the pair has no snapshot; and *)
(* when a takeCurrentSnapshot invocation has returned after writing its    *)
(* batch, the latest snapshot of each pair in the batch is the snapshot    *)
(* that this invocation wrote.                                             *)
(***************************************************************************)
SnapshotsOf(pairAddress) == { d \in Docs : d.pairAddress = toLowerCase(pairAddress) }

LatestIsGreatest ==
    Returned("getLatestSnapshot") =>
        LET mine == SnapshotsOf(event.query.pairAddress)
        IN  IF mine = {}
            THEN event.rows = <<>>
            ELSE /\ Len(event.rows) = 1
                 /\ event.rows[1] \in mine
                 /\ \A d \in mine : d.timestamp <= event.rows[1].timestamp

LatestIsOfThisCycle ==
    (CycleReturned /\ event.wrote = "ok") =>
        \A k \in DOMAIN event.arg :
            getLatestSnapshot(store, event.arg[k].pairAddress) = <<event.arg[k]>>

C16_LatestAfterCycle == LatestIsGreatest /\ LatestIsOfThisCycle

(***************************************************************************)
(* C17: pair addresses that differ only in letter case name the same pair. *)
(* The store holds each pair under one casing and at most one snapshot per *)
(* pair and timestamp, so that two saveSnapshot calls that differ only in  *)
(* the case of the address write the same record; and getSnapshots,        *)
(* getLatestSnapshot and getSnapshotsForAPR return the same result for     *)
(* every casing of the address.                                            *)
(***************************************************************************)
CaseClasses == { {"0xbc9d", "0xBC9D"}, {"0xb4e1"} }

SameIgnoringCase(a, b) == \E c \in CaseClasses : a \in c /\ b \in c

Casings(a) == { b \in AddressInputs : SameIgnoringCase(a, b) }

OneCasingOneRecord ==
    \A d, e \in Docs :
        SameIgnoringCase(d.pairAddress, e.pairAddress) =>
            /\ d.pairAddress = e.pairAddress
            /\ d.timestamp = e.timestamp => (d = e /\ store[d] = 1)

UpsertIgnoresCase ==
    Returned("saveSnapshot") =>
        \E d \in Docs :
            /\ SameIgnoringCase(d.pairAddress, event.arg[1].pairAddress)
            /\ d.timestamp = event.arg[1].timestamp
            /\ SameValues(d, event.arg[1])

ReadsIgnoreCase ==
    /\ Returned("getSnapshots") =>
          \A a \in Casings(event.query.pairAddress) :
              getSnapshots(store, a, event.query.params) = event.rows
    /\ Returned("getLatestSnapshot") =>
          \A a \in Casings(event.query.pairAddress) :
              getLatestSnapshot(store, a) = event.rows
    /\ Returned("getSnapshotsForAPR") =>
          \A a \in Casings(event.query.pairAddress) :
              getSnapshotsForAPR(store, a, event.query.endTime, event.query.windowHours)
                  = event.rows

C17_CaseInsensitiveKey == OneCasingOneRecord /\ UpsertIgnoresCase /\ ReadsIgnoreCase

\* A query under the upper-case address has returned two snapshots.
C17_Witness ==
    /\ Returned("getSnapshots")
    /\ event.query.pairAddress = "0xBC9D"
    /\ Len(event.rows) = 2

(***************************************************************************)
(* C18, as stated: calculateWindowAPR on fewer than 2 snapshots yields no  *)
(* result (neither an error nor numbers); on exactly 2 snapshots of equal  *)
(* volumeUSD it yields apr = 0.                                            *)
(***************************************************************************)
Calculated == Returned("calculateWindowAPR")

EqualVolumePair(snapshots) ==
    Len(snapshots) = 2 /\ snapshots[1].volumeUSD = snapshots[2].volumeUSD

CurrentAPRNeedsTwo ==
    (Returned("getCurrentAPR") /\ event.query # <<>>) =>
        LET mine == { d \in SnapshotsOf(event.query.pairAddress) :
                        /\ now - event.query.windowHours <= d.timestamp
                        /\ d.timestamp <= now }
        IN  (event.rows = <<>>) <=> (Cardinality(mine) < 2)

(***************************************************************************)
(* C19: for a fixed windowHours and a fixed mean of the reserves, a slice  *)
(* whose volume difference (volumeUSD of its latest snapshot minus         *)
(* volumeUSD of its earliest) is larger or equal gets a larger or equal    *)
(* apr from calculateWindowAPR.                                            *)
(***************************************************************************)
Range(sl) == { sl[i] : i \in DOMAIN sl }

Earliest(sl) == CHOOSE x \in Range(sl) : \A y \in Range(sl) : x.timestamp <= y.timestamp

Latest(sl) == CHOOSE x \in Range(sl) : \A y \in Range(sl) : x.timestamp >= y.timestamp

VolumeDelta(sl) == Latest(sl).volumeUSD - Earliest(sl).volumeUSD

RECURSIVE ReserveSum(_)
ReserveSum(sl) == IF sl = <<>> THEN 0 ELSE sl[1].reserveUSD + ReserveSum(Tail(sl))

SameMeanReserve(a, b) == ReserveSum(a) * Len(b) = ReserveSum(b) * Len(a)

C19_MonotonicInVolumeDelta ==
    (Calculated /\ Len(event.query.snapshots) >= 2) =>
        \A other \in Slices(event.query.windowHours) :
            (/\ Len(other) >= 2
             /\ SameMeanReserve(other, event.query.snapshots)
             /\ VolumeDelta(other) >= VolumeDelta(event.query.snapshots))
            => RatLeq(event.rows[1].apr,
                      calculateWindowAPR(other, event.query.windowHours).apr)

\* A slice whose volume went down, beside a slice of the same mean reserve
\* whose volume went up and whose apr is not 0.
C19_Witness ==
    /\ Calculated
    /\ Len(event.query.snapshots) >= 2
    /\ VolumeDelta(event.query.snapshots) < 0
    /\ \E other \in Slices(event.query.windowHours) :
          /\ Len(other) >= 2
          /\ SameMeanReserve(other, event.query.snapshots)
          /\ VolumeDelta(other) > 0
          /\ calculateWindowAPR(other, event.query.windowHours).apr # Zero

(***************************************************************************)
(* C20: on 2 or more snapshots calculateWindowAPR returns                  *)
(*   totalFees = volumeDelta * 0.003,                                      *)
(*   averageLiquidity = the mean of reserveUSD over all the snapshots,     *)
(*   apr = (totalFees / averageLiquidity) * (8760 / windowHours) * 100,    *)
(* where volumeDelta is the volume difference between the snapshot of the  *)
(* latest and of the earliest timestamp, or 0 when that is negative; the   *)
(* result is the same in whatever order the snapshots are passed.  For a   *)
(* snapshot at t0 (reserve 1,000,000, volume 10,000,000) and one at        *)
(* t0 + 24h (reserve 1,000,000, volume 20,000,000) with windowHours = 24:  *)
(* totalFees 30,000, averageLiquidity 1,000,000, apr 1,095.  (Amounts are  *)
(* in thousands of USD.)                                                   *)
(***************************************************************************)
ExampleSlice ==
    { MakeSnapshot(0, pairAddress1, 1000, 10000), MakeSnapshot(24, pairAddress1, 1000, 20000) }

C20_AprFormula ==
    (Calculated /\ Len(event.query.snapshots) >= 2) =>
        LET sl == event.query.snapshots
            w == event.query.windowHours
            result == event.rows[1]
            volumeDelta == IF VolumeDelta(sl) > 0 THEN VolumeDelta(sl) ELSE 0
            fees == Rat(volumeDelta * 3, 1000)
            mean == Rat(ReserveSum(sl), Len(sl))
        IN  /\ result.totalFees = fees
            /\ result.averageLiquidity = mean
            /\ result.apr = RatMul(RatMul(RatDiv(fees, mean), Rat(8760, w)), Rat(100, 1))
            /\ \A other \in Slices(w) :
                  Range(other) = Range(sl) => calculateWindowAPR(other, w) = result
            /\ (Range(sl) = ExampleSlice /\ w = 24) =>
                  /\ result.totalFees = <<30, 1>>
                  /\ result.averageLiquidity = <<1000, 1>>
                  /\ result.apr = <<1095, 1>>

\* The two snapshots of the example, passed latest first.
C20_Witness ==
    /\ Calculated
    /\ event.query.windowHours = 24
    /\ Len(event.query.snapshots) = 2
    /\ event.query.snapshots[1].timestamp = 24
    /\ Range(event.query.snapshots) = ExampleSlice
    /\ event.rows[1].apr = <<1095, 1>>

(***************************************************************************)
(* C21: getAPRTimeSeries(poolKey, windowHours, startTime, endTime) emits   *)
(* exactly one point for each stored snapshot of the pool whose timestamp  *)
(* lies in [startTime, endTime] and whose window slice holds at least two  *)
(* snapshots, and no other point, in ascending order of timestamp; this    *)
(* also when a single snapshot lies in the range while earlier snapshots   *)
(* populate its window.  Stated for the calls in which no window read      *)
(* fails.                                                                  *)
(***************************************************************************)
SeriesEnd(q) == IF q.endDate # <<>> THEN q.endDate[1] ELSE now

SeriesStart(q) == IF q.startDate # <<>> THEN q.startDate[1] ELSE SeriesEnd(q) - SevenDays

WindowOf(d, windowHours) ==
    { e \in Docs : /\ e.pairAddress = d.pairAddress
                   /\ d.timestamp - windowHours <= e.timestamp
                   /\ e.timestamp <= d.timestamp }

Populated(q) ==
    { d \in Docs : /\ d.pairAddress = toLowerCase(q.pairAddress)
                   /\ SeriesStart(q) <= d.timestamp
                   /\ d.timestamp <= SeriesEnd(q)
                   /\ Cardinality(WindowOf(d, q.windowHours)) >= 2 }

C21_SeriesExact ==
    (Returned("getAPRTimeSeries") /\ event.query.failing = {}) =>
        /\ \A d \in Populated(event.query) :
              \E i \in DOMAIN event.rows : event.rows[i].timestamp = d.timestamp
        /\ \A i \in DOMAIN event.rows :
              \E d \in Populated(event.query) : event.rows[i].timestamp = d.timestamp
        /\ Ascending(event.rows)

\* The range [1, 1] holds one snapshot, whose window also holds the snapshot of
\* the hour before: the series is empty.
C21_SingleInRange ==
    /\ Returned("getAPRTimeSeries")
    /\ event.query.failing = {}
    /\ event.query.startDate = <<1>> /\ event.query.endDate = <<1>>
    /\ Cardinality(Populated(event.query)) = 1
    /\ event.rows = <<>>

\* Two snapshots in the range, each answered or not by its own window.
C21_TwoInRange ==
    /\ Returned("getAPRTimeSeries")
    /\ event.query.failing = {}
    /\ Len(event.rows) = 1
    /\ Cardinality(Populated(event.query)) = 1

(***************************************************************************)
(* C22: an APR request whose window is outside {1, 12, 24} (window=6, or   *)
(* no number at all) makes no call of the APR service or of the store, and *)
(* is answered 400 "Invalid window parameter" whenever the database is     *)
(* connected; when it is not connected the answer is 503 whatever the      *)
(* window.  Only the windows 1, 12 and 24 ever reach the APR service.      *)
(***************************************************************************)
Routed == event.op = "GET /pairs/:pairAddress/apr"

\* The window the request asks for: the number written in it, 24 when absent.
RequestedWindow(q) ==
    CASE q.window \in {"", "24"} -> 24
      [] q.window = "1"          -> 1
      [] q.window = "6"          -> 6
      [] q.window = "12"         -> 12
      [] OTHER                   -> -1

Unsupported(q) == RequestedWindow(q) \notin {1, 12, 24}

RangeReadThrew == event.arg[1].fault.series # ""

CurrentReadThrew ==
    /\ event.arg[1].fault.current
    /\ \E i \in DOMAIN event.answers : event.answers[i].service = "getCurrentAPR"

StoreReadThrew == Routed /\ event.arg[1].connected /\ (RangeReadThrew \/ CurrentReadThrew)

C24_StoreFailureIsUnavailable ==
    StoreReadThrew =>
        /\ event.result = "503"
        /\ event.wrote = "Database connection unavailable"

\* The read of the range throws "connection closed": 500, internal server error.
C24_GenericError ==
    /\ StoreReadThrew /\ RangeReadThrew
    /\ event.result = "500" /\ event.wrote = "Internal server error"

\* The window read of getCurrentAPR throws: 200 with no data.
C24_EmptyResult ==
    /\ StoreReadThrew /\ CurrentReadThrew
    /\ event.result = "200" /\ event.rows = <<>>
    /\ Cardinality({ d \in Docs : d.pairAddress = event.query.pairAddress }) >= 2

(***************************************************************************)
(* C23: the backfill of a pool that has no snapshot, after a read of the   *)
(* pool that returned {R, V}, persists in one batch, oldest first, exactly *)
(* 48 snapshots one hour apart that end at the present hour, each with a   *)
(* reserve within 5% of R, and with a cumulative volume that strictly      *)
(* decreases going backward in time from V.                                *)
(***************************************************************************)
Backfilled == event.op = "createInitialSnapshots" /\ event.wrote = "ok"

C23_BackfillShape ==
    Backfilled =>
        LET batch == event.arg
            R == parseFloat(event.answers[1].reserveUSD)
            V == parseFloat(event.answers[1].volumeUSD)
        IN  /\ Len(batch) = 48
            /\ batch[48].timestamp = now
            /\ \A k \in 1..47 : batch[k + 1].timestamp = batch[k].timestamp + 1
            /\ \A k \in 1..48 :
                  /\ 95 * R <= 100 * batch[k].reserveUSD
                  /\ 100 * batch[k].reserveUSD <= 105 * R
                  /\ batch[k].pairAddress = event.answers[1].id
                  /\ batch[k] \in Docs
            /\ batch[48].volumeUSD = V
            /\ \A k \in 1..47 : batch[k].volumeUSD < batch[k + 1].volumeUSD
            /\ Cardinality({ d \in Docs : d.pairAddress = event.answers[1].id }) = 48

\* The backfill of the first pair from what the subgraph holds for it.
C23_Witness ==
    /\ Backfilled
    /\ isServiceAvailable
    /\ event.answers[1] \in LiveData(pairAddress1)
    /\ event.arg[1].timestamp = now - 47
    /\ event.arg[1].volumeUSD = parseFloat(event.answers[1].volumeUSD) - 47 * 50
    /\ \E k \in 1..48 : event.arg[k].reserveUSD # parseFloat(event.answers[1].reserveUSD)

(***************************************************************************)
(* C25: initializeHistory backfills a pool only if the store holds no      *)
(* snapshot of it.  For a pool with at least one snapshot it reads nothing *)
(* from the pool data source and leaves the pool's snapshots unchanged; so *)
(* a second run after a successful first run changes nothing.              *)
(***************************************************************************)
PoolDocs(st, p) == { d \in BagToSet(st) : d.pairAddress = p }

C25_BackfillOnlyEmptyPools ==
    [][\A p \in {pairAddress1, pairAddress2} :
          PoolDocs(store, p) # {} =>
              /\ PoolDocs(store', p) = PoolDocs(store, p)
              /\ \A s \in Schedulers :
                    (hist[s].pc = "check" /\ PAIR_ADDRESSES[hist[s].i] = p)
                        => hist'[s].pc \notin {"fetch", "write"}]_vars

\* The second run has gone past the first pair, which the first run backfilled,
\* without a read or a write.
C25_Witness ==
    /\ ~isServiceAvailable
    /\ initPc[1] = "snapshot" /\ initPc[2] = "history"
    /\ hist[2].pc = "check" /\ hist[2].i = 2
    /\ event.op = "none"
    /\ Cardinality(PoolDocs(store, pairAddress1)) = 48

(***************************************************************************)
(* C26: the number of samples the backfill synthesizes for an empty pool   *)
(* is the configured initial backfill depth in hours (48 when none is      *)
(* configured): under a depth of H it writes exactly H snapshots.          *)
(***************************************************************************)
C26_DepthAsConfigured ==
    Backfilled =>
        \A env \in HoursBackSettings : Len(event.arg) = initialHoursBack(env)

\* What holds instead: 48 samples whatever is configured.
C26_AlwaysFortyEight ==
    /\ Backfilled
    /\ Len(event.arg) = 48
    /\ initialHoursBack("24") = 24

(***************************************************************************)
(* C27: saveBatchSnapshots(candidates) leaves the store as saveSnapshot    *)
(* applied to each candidate in order would: a candidate that saveSnapshot *)
(* rejects (a negative value) is not persisted by the batch either.        *)
(***************************************************************************)
\* saveSnapshot applied to each candidate in turn, a rejected one left out.
RECURSIVE UpsertEach(_, _)
UpsertEach(st, candidates) ==
    IF candidates = <<>> THEN st
    ELSE LET c == Head(candidates)
             next == IF c.reserveUSD >= 0 /\ c.volumeUSD >= 0
                     THEN UpdateOneUpsert(st, c) ELSE st
         IN  UpsertEach(next, Tail(candidates))

C27_BatchAsUpserts ==
    [][(event'.op = "saveBatchSnapshots" /\ event'.result = "ok")
          => store' = UpsertEach(store, event'.arg)]_vars

\* What holds: the equivalence for the batches without a negative value.
BatchOfValidAsUpserts ==
    [][(/\ event'.op = "saveBatchSnapshots" /\ event'.result = "ok"
        /\ \A i \in DOMAIN event'.arg :
              event'.arg[i].reserveUSD >= 0 /\ event'.arg[i].volumeUSD >= 0)
          => store' = UpsertEach(store, event'.arg)]_vars

\* A batch persisted a candidate with a negative volume.
C27_NegativePersisted ==
    /\ event.op = "saveBatchSnapshots" /\ event.result = "ok"
    /\ \E i \in DOMAIN event.arg :
          /\ event.arg[i].volumeUSD < 0
          /\ MakeSnapshot(event.arg[i].timestamp, toLowerCase(event.arg[i].pairAddress),
                          event.arg[i].reserveUSD, event.arg[i].volumeUSD) \in Docs

(***************************************************************************)
(* C28: whatever the interleaving of concurrent writers (two collection    *)
(* cycles, or a scheduled cycle and a manual trigger) that upsert the same *)
(* (pairAddress, timestamp), the store never holds two records of a key.   *)
(***************************************************************************)
C28_OneRecordPerKeyUnderConcurrency ==
    \A d \in Docs :
        /\ CopiesIn(d, store) = 1
        /\ Matching(store, d.timestamp, d.pairAddress) = {d}

\* A triggered collection has written its two snapshots while the scheduled
\* collection of the same hour is still under way, the keys being in the store
\* once.
C28_Witness ==
    /\ event.op = "route" /\ event.wrote = "ok" /\ Len(event.arg) = 2
    /\ \E cyc \in BagToSet(cycles) : cyc.origin = "tick" /\ cyc.timestamp = event.timestamp
    /\ \A i \in 1..2 :
          Cardinality(Matching(store, event.arg[i].timestamp, event.arg[i].pairAddress)) = 1

(***************************************************************************)
(* C29: scheduling state is owned by each Scheduler instance.  stop() on   *)
(* one instance cancels the triggers of that instance only, never those of *)
(* another running instance; and for every instance getStatus() reports    *)
(* running exactly when the periodic triggers of that instance are active. *)
(***************************************************************************)
TriggersActive(s) == RunningTasks(s, "snapshot") >= 1 /\ RunningTasks(s, "cleanup") >= 1

C29_StatusMatchesOwnTriggers ==
    \A s \in Schedulers : isRunning[s] <=> TriggersActive(s)

\* stop() on one instance has left another reporting running with none of its
\* tasks scheduled.
C29_StoppedByAnother ==
    /\ event.op = "stop" /\ event.result = "stopped"
    /\ \E s \in Schedulers \ {event.who} :
          /\ isRunning[s]
          /\ RunningTasks(s, "snapshot") + RunningTasks(s, "cleanup") = 0
          /\ \E task \in BagToSet(tasks) : task.owner = s

(***************************************************************************)
(* C30: calculateWindowAPR never returns a negative apr or negative fees.  *)
(* When the latest volume is below the earliest, the volume increase is    *)
(* taken as 0 and the apr is 0; when the average reserve is not above 0,   *)
(* the apr is 0.                                                           *)
(***************************************************************************)
C30_NeverNegative ==
    Calculated =>
        LET result == event.rows[1]
            sl == event.query.snapshots
        IN  /\ result.apr[1] >= 0 /\ result.apr[2] > 0
            /\ result.totalFees[1] >= 0 /\ result.totalFees[2] > 0
            /\ (Len(sl) >= 2 /\ VolumeDelta(sl) < 0) =>
                  result.totalFees = Zero /\ result.apr = Zero
            /\ (Len(sl) >= 2 /\ ReserveSum(sl) <= 0) => result.apr = Zero

\* Fees were earned over a window whose average reserve is below zero.
C30_Witness ==
    /\ Calculated
    /\ Len(event.query.snapshots) = 2
    /\ ReserveSum(event.query.snapshots) < 0
    /\ VolumeDelta(event.query.snapshots) > 0
    /\ event.rows[1].totalFees = <<30, 1>>
    /\ event.rows[1].apr = Zero

\* The volume fell over a window whose reserves are ordinary.
C30_WitnessVolumeFell ==
    /\ Calculated
    /\ ReserveSum(event.query.snapshots) > 0
    /\ VolumeDelta(event.query.snapshots) < 0
    /\ event.rows[1].apr = Zero

(***************************************************************************)
(* C31: a takeCurrentSnapshot invocation always terminates, even when a    *)
(* request to the subgraph for one pair is never answered: the request is  *)
(* bounded by a timeout, and the invocation goes on to the remaining pairs *)
(* and to the batch write.                                                 *)
(***************************************************************************)
Started(s, t) == \E cyc \in BagToSet(cycles) : cyc.who = s /\ cyc.timestamp = t

Returned31(s, t) ==
    event.op = "triggerSnapshot" /\ event.who = s /\ event.timestamp = t

C31_CycleTerminates ==
    \A s \in Schedulers, t \in 0..MaxNow :
        Started(s, t) ~> Returned31(s, t)

\* An invocation is waiting for an answer that will not come.
C31_Hung ==
    \E cyc \in BagToSet(cycles) : cyc.hung /\ ~ENABLED CycleRun(cyc)

(***************************************************************************)
(* C32: getCurrentAPR(pairAddress, windowHours) is the windowed APR        *)
(* computation anchored at now only.  Whenever its read of the store       *)
(* succeeds it returns a single point, computed from the snapshots of the  *)
(* pair in [now - windowHours, now], if there are at least 2 of them, and  *)
(* null exactly if there are fewer than 2.                                 *)
(***************************************************************************)
SliceNow(q) ==
    { d \in SnapshotsOf(q.pairAddress) :
        now - q.windowHours <= d.timestamp /\ d.timestamp <= now }

AsSeq(S) == CHOOSE sq \in [1..Cardinality(S) -> S] : Range(sq) = S

C32_CurrentAPRAnchoredNow ==
    (Returned("getCurrentAPR") /\ event.query # <<>>) =>
        LET slice == SliceNow(event.query)
            w == event.query.windowHours
        IN  /\ Len(event.rows) <= 1
            /\ (event.rows = <<>>) <=> (Cardinality(slice) < 2)
            /\ event.rows # <<>> =>
                  LET sl == AsSeq(slice)
                      point == event.rows[1]
                      volumeDelta == IF VolumeDelta(sl) > 0 THEN VolumeDelta(sl) ELSE 0
                      fees == Rat(volumeDelta * 3, 1000)
                      mean == Rat(ReserveSum(sl), Len(sl))
                  IN  /\ point.timestamp = now
                      /\ point.windowHours = w
                      /\ point.feesUSD = fees
                      /\ point.apr = RatMul(RatMul(RatDiv(fees, mean), Rat(8760, w)),
                                            Rat(100, 1))
                      /\ point.reserveUSD = Latest(sl).reserveUSD
                      /\ point.volumeUSD = Latest(sl).volumeUSD

\* At hour 1 the one-hour window of a pair holds its snapshots of hours 0 and 1,
\* over which the volume rose.
C32_Witness ==
    /\ Returned("getCurrentAPR") /\ event.query # <<>>
    /\ now = 1 /\ event.query.windowHours = 1
    /\ Cardinality(SliceNow(event.query)) = 2
    /\ Len(event.rows) = 1
    /\ event.rows[1].timestamp = 1
    /\ event.rows[1].apr[1] > 0

\* The window holds a single snapshot: null.
C32_WitnessNone ==
    /\ Returned("getCurrentAPR") /\ event.query # <<>>
    /\ Cardinality(SliceNow(event.query)) = 1
    /\ event.rows = <<>>

(***************************************************************************)
(* C33: a takeCurrentSnapshot invocation stages at most one candidate per  *)
(* tracked pair, all of them with the one timestamp read at its start, and *)
(* writes them in a single batch once every pair has been asked for; when  *)
(* no pair yields data it issues no write and the store is left unchanged. *)
(***************************************************************************)
\* The pairs whose request yielded data, in the order of PAIR_ADDRESSES.
Yielding(answers) ==
    { i \in DOMAIN answers : answers[i].kind # "nopair" }

C33_OneBatchPerCycle ==
    [][event'.op \in {"tick", "route", "initialize", "triggerSnapshot"} =>
          LET staged == event'.arg
              tracked == { PAIR_ADDRESSES[i] : i \in DOMAIN PAIR_ADDRESSES }
          IN  /\ \A i \in DOMAIN staged :
                    /\ staged[i].pairAddress \in tracked
                    /\ staged[i].timestamp = event'.timestamp
                    /\ \A j \in DOMAIN staged :
                          staged[i].pairAddress = staged[j].pairAddress => i = j
              /\ { staged[i].pairAddress : i \in DOMAIN staged }
                    = { PAIR_ADDRESSES[i] : i \in Yielding(event'.answers) }
              /\ event'.wrote = "ok" =>
                    /\ \A i \in DOMAIN staged : staged[i] \in BagToSet(store')
                    /\ \A d \in BagToSet(store') :
                          d \in BagToSet(store) \/ \E i \in DOMAIN staged : staged[i] = d
              /\ event'.wrote # "ok" => store' = store
              /\ staged = <<>> <=> event'.wrote = "none"
              /\ Yielding(event'.answers) = {} => (staged = <<>> /\ store' = store)]_vars

\* An invocation started by the cron task got data for both pairs and has
\* written both snapshots, stamped with the hour in which it started.
C33_Witness ==
    /\ event.op = "tick" /\ event.wrote = "ok"
    /\ Len(event.arg) = 2
    /\ event.arg[1].timestamp = event.timestamp
    /\ event.arg[2].timestamp = event.timestamp
    /\ \A i \in 1..2 : event.arg[i] \in Docs

\* No pair yielded data: nothing staged, nothing written.
C33_WitnessNoData ==
    /\ event.op = "tick" /\ event.wrote = "none"
    /\ event.arg = <<>>
    /\ \A i \in DOMAIN event.answers : event.answers[i].kind = "nopair"

(***************************************************************************)
(* C34: pools are isolated in the store.  A saveSnapshot, a                *)
(* saveBatchSnapshots, a backfill or a collection write never creates,     *)
(* changes or removes a snapshot of a pool that is not among its           *)
(* candidates; getSnapshots, getLatestSnapshot and getSnapshotsForAPR for  *)
(* a pool never return a snapshot of another pool.                         *)
(***************************************************************************)
WriteOps ==
    { "saveSnapshot", "saveBatchSnapshots", "createInitialSnapshots",
      "tick", "route", "initialize", "triggerSnapshot" }

ReadOps == { "getSnapshots", "getLatestSnapshot", "getSnapshotsForAPR" }

WrittenPools(candidates) ==
    { toLowerCase(candidates[i].pairAddress) : i \in DOMAIN candidates }

C34_PoolsIsolated ==
    [][/\ event'.op \in WriteOps =>
             \A p \in {pairAddress1, pairAddress2} \ WrittenPools(event'.arg) :
                 PoolDocs(store', p) = PoolDocs(store, p)
       /\ (event'.op \in ReadOps /\ event'.result = "ok") =>
             \A i \in DOMAIN event'.rows :
                 event'.rows[i].pairAddress = toLowerCase(event'.query.pairAddress)]_vars

\* A batch for one pool has been written into a store that holds snapshots of
\* the other.
C34_Witness ==
    /\ event.op = "saveBatchSnapshots" /\ event.result = "ok"
    /\ WrittenPools(event.arg) = {pairAddress1}
    /\ PoolDocs(store, pairAddress1) # {}
    /\ PoolDocs(store, pairAddress2) # {}

\* The latest snapshot of one pool, read while the other pool holds a later one.
C34_WitnessRead ==
    /\ Returned("getLatestSnapshot")
    /\ Len(event.rows) = 1
    /\ \E d \in Docs :
          d.pairAddress # event.rows[1].pairAddress /\ d.timestamp > event.rows[1].timestamp

(***************************************************************************)
(* C35: when getAPRTimeSeries yields no point for a valid window, the APR  *)
(* route falls back to getCurrentAPR: it answers with a one-element list   *)
(* holding the current APR point, timestamped now (which may lie outside   *)
(* the requested range), if there is one, and with an empty list           *)
(* otherwise; always as a success response.                                *)
(***************************************************************************)
Served ==
    /\ Routed
    /\ event.arg[1].connected
    /\ ~Unsupported(event.query)
    /\ event.arg[1].fault.series = ""

RouteEnd(q) == IF q.endDate # "" THEN newDate(q.endDate) ELSE now

RouteStart(q) == IF q.startDate # "" THEN newDate(q.startDate) ELSE RouteEnd(q) - 168

RouteSeries ==
    getAPRTimeSeries(store, event.query.pairAddress, RequestedWindow(event.query),
                     <<RouteStart(event.query)>>, <<RouteEnd(event.query)>>, now,
                     event.arg[1].fault.windows)

CurrentQuery ==
    [pairAddress |-> event.query.pairAddress, windowHours |-> RequestedWindow(event.query)]

CurrentExists == ~event.arg[1].fault.current /\ Cardinality(SliceNow(CurrentQuery)) >= 2

C35_FallbackToCurrent ==
    Served =>
        /\ event.result = "200"
        /\ RouteSeries # <<>> =>
              /\ event.rows = RouteSeries
              /\ Len(event.answers) = 1
        /\ RouteSeries = <<>> =>
              /\ Len(event.answers) = 2
              /\ event.answers[2] =
                    [service |-> "getCurrentAPR", windowHours |-> RequestedWindow(event.query)]
              /\ CurrentExists =>
                    /\ Len(event.rows) = 1
                    /\ event.rows[1].timestamp = now
                    /\ event.rows = getCurrentAPR(store, event.query.pairAddress,
                                                  RequestedWindow(event.query), now)
              /\ ~CurrentExists => event.rows = <<>>

\* At hour 1 a series is asked for up to hour 0: it is empty, and the answer is
\* the current point, of hour 1.
C35_Witness ==
    /\ Served
    /\ now = 1
    /\ event.query.endDate = "1970-01-01T00:00Z"
    /\ RouteSeries = <<>>
    /\ event.result = "200"
    /\ Len(event.rows) = 1
    /\ event.rows[1].timestamp = 1
    /\ event.rows[1].timestamp > RouteEnd(event.query)

\* No series and no current point: success with an empty list.
C35_WitnessEmpty ==
    /\ Served
    /\ RouteSeries = <<>>
    /\ ~event.arg[1].fault.current
    /\ event.result = "200" /\ event.rows = <<>>

====
